---- MODULE Spec2Model ----
(***************************************************************************)
(* A model of python-tidegates (Geosyntec): the flood masking of           *)
(* utils.flood_zones, the zonal aggregation of utils.groupby_and_aggregate, *)
(* the impact attributes written by analysis.area_of_impacts and           *)
(* analysis.count_of_impacts, utils.add_field_with_value, the scoped       *)
(* environment settings utils.WorkSpace and utils.OverwriteState, the      *)
(* licence scope utils.Extension, the scenarios of the toolboxes           *)
(* (make_scenarios, _prep_flooder_input), the batch driver main_execute    *)
(* with analyze and finish_results, analysis.assess_impact and             *)
(* analysis.flood_area.                                                    *)
(*                                                                         *)
(* The components do not share state, so each is explored by its own       *)
(* specification (SpecFlood, SpecAgg, SpecImpact, SpecField, SpecScope,    *)
(* SpecScopeObjects, SpecExt, SpecScen, SpecBatch, SpecFinish, SpecAssess, *)
(* SpecInPlace, SpecFloodArea, SpecAnalyze) over the one set of variables; *)
(* a specification leaves the variables of the other components at their   *)
(* idle values. SpecMain runs the batch driver inside its scopes.          *)
(***************************************************************************)
EXTENDS Integers, Sequences, FiniteSets, TLC

VARIABLES
    \* utils.flood_zones
    zones_array,      \* the caller's zone-id grid (cells in row-major order)
    topo_array,       \* the caller's elevation grid, as it is now
    topo_input,       \* the elevation grid as it was handed to flood_zones
    elevation,        \* the flood elevation (threshold)
    flooded_array,    \* the grid flood_zones returned
    pcFlood,          \* "ready" before the call, "done" after it
    \* utils.groupby_and_aggregate
    layer,            \* rows of the attribute table at input_path
    groupfield,       \* argument
    valuefield,       \* argument
    aggfxn,           \* argument: "None" (default reducer) or "sum"
    counts,           \* the mapping returned (empty while there is none)
    rowsRead,         \* rows handed over by arcpy.da.TableToNumPyArray
    pcAgg,            \* "ready", "returned" or "ValueError"
    \* analysis.area_of_impacts / analysis.count_of_impacts
    floods,           \* rows of the flood table at floods_path
    floodFields,      \* names of the fields of the flood table
    wetlandsTable,    \* rows (zone id, area) of the dissolved flooded wetlands
    buildingsTable,   \* rows (zone id, building id) of the flooded buildings
    wetlandAreas,     \* mapping computed by area_of_impacts
    buildingCounts,   \* mapping computed by count_of_impacts
    impactDone,       \* the impact steps that have run
    \* utils.add_field_with_value
    tblFields,        \* field name -> field type of the table
    tblValues,        \* field name -> value held by the rows of the table
    lastCall,         \* the arguments and outcome of the latest call
    nCalls,           \* calls made so far
    \* utils.WorkSpace / utils.OverwriteState
    workspace,        \* arcpy.env.workspace
    overwriteOutput,  \* arcpy.env.overwriteOutput
    stack,            \* the scopes entered and not yet left, innermost last
    objs,             \* scope objects constructed and not (yet) entered
    constructed,      \* scope objects constructed ahead of their use so far
    exc,              \* an exception is propagating
    lastExit,         \* what the __exit__ that has just run did
    baseline,         \* the two globals before any scope was entered
    \* utils.Extension
    extAvailable,     \* extensions whose license can be checked out
    extHeld,          \* extensions this process has checked out
    extStack,         \* names of the Extension blocks open, innermost last
    extExc,           \* an exception is propagating
    extLast,          \* what the Extension.__exit__ that has just run did
    \* toolbox.StandardScenarios.make_scenarios / _prep_flooder_input
    elevationParam,   \* params.get('elevation', None)
    scenario_list,    \* the list make_scenarios returned
    prepElevations,   \* the elevation _prep_flooder_input computed, per scenario
    pcScen,           \* "ready" before make_scenarios, "made" after it
    \* toolbox.StandardScenarios.main_execute / analyze / finish_results
    bParams,          \* params: elevation, wetlands, buildings (cleanup for finish_results)
    world,            \* the geodata: zones that flood, wetlands each zone meets
    bpc,              \* position in main_execute
    num,              \* index of the scenario of the loop
    scenarios,        \* the list make_scenarios returned
    arrays,           \* topo_array, zones_array, template of process_dem_and_zones
    rasterCalls,      \* calls of process_dem_and_zones so far
    bfiles,           \* the datasets in the workspace: path -> rows
    all_floods,       \* paths of the per-scenario flood layers
    all_wetlands,     \* paths of the per-scenario wetlands layers
    all_buildings,    \* paths of the per-scenario buildings layers
    contributed,      \* the rows each scenario handed over, per kind of layer
    trace,            \* the stages passed so far
    bexc,             \* an exception has left main_execute
    \* --- analysis.assess_impact ---
    aCleanup,         \* the `cleanup` argument of the calls
    assessed,         \* what assess_impact returned, per combination of asset layers
    \* --- analysis.assess_impact, called again on the same flood table ---
    assessCalls,      \* number of calls made on the flood table
    lastAssess,       \* arguments and return value of the latest call
    \* --- analysis.flood_area ---
    elevation_feet,   \* argument: the flood elevation in feet
    floodAreaFiles,   \* the datasets flood_area has left in the workspace
    \* --- toolbox.StandardScenarios.analyze, called on its own ---
    anArgs,           \* elev, surge, slr, num and the params of the call
    anpc,             \* position in analyze
    anElev,           \* the elevation _prep_flooder_input returned
    anError,          \* the exception that has left analyze ("" for none)
    floodCalls,       \* calls of flood_area started
    anFiles           \* the datasets analyze has written

floodVars  == <<zones_array, topo_array, topo_input, elevation, flooded_array, pcFlood>>
aggVars    == <<layer, groupfield, valuefield, aggfxn, counts, rowsRead, pcAgg>>
impactVars == <<floods, floodFields, wetlandsTable, buildingsTable,
                wetlandAreas, buildingCounts, impactDone>>
fieldVars  == <<tblFields, tblValues, lastCall, nCalls>>
scopeVars  == <<workspace, overwriteOutput, stack, objs, constructed, exc, lastExit,
                baseline>>
extVars    == <<extAvailable, extHeld, extStack, extExc, extLast>>
scenVars   == <<elevationParam, scenario_list, prepElevations, pcScen>>
batchVars  == <<bParams, world, bpc, num, scenarios, arrays, rasterCalls, bfiles,
                all_floods, all_wetlands, all_buildings, contributed, trace,
                bexc>>
assessVars == <<aCleanup, assessed>>
inplaceVars == <<assessCalls, lastAssess>>
floodAreaVars == <<elevation_feet, floodAreaFiles>>
analyzeVars == <<anArgs, anpc, anElev, anError, floodCalls, anFiles>>
vars       == <<floodVars, aggVars, impactVars, fieldVars, scopeVars,
               extVars,
               scenVars,
               batchVars,
               assessVars,
               inplaceVars,
               floodAreaVars,
               analyzeVars>>

(***************************************************************************)
(* Helpers                                                                 *)
(***************************************************************************)
\* All sequences over S of length 0..n.
SeqsUpTo(S, n) == UNION {[1..k -> S] : k \in 0..n}

\* The empty mapping (a Python dict with no key).
EmptyMap == <<>>

\* What a step of one component leaves alone: the other components.
FloodFrame  == UNCHANGED <<aggVars, impactVars, fieldVars, scopeVars,
                         extVars,
                         scenVars,
                         batchVars,
                         assessVars,
                         inplaceVars,
                         floodAreaVars,
                         analyzeVars>>
AggFrame    == UNCHANGED <<floodVars, impactVars, fieldVars, scopeVars,
                         extVars,
                         scenVars,
                         batchVars,
                         assessVars,
                         inplaceVars,
                         floodAreaVars,
                         analyzeVars>>
ImpactFrame == UNCHANGED <<floodVars, aggVars, fieldVars, scopeVars,
                         extVars,
                         scenVars,
                         batchVars,
                         assessVars,
                         inplaceVars,
                         floodAreaVars,
                         analyzeVars>>
FieldFrame  == UNCHANGED <<floodVars, aggVars, impactVars, scopeVars,
                         extVars,
                         scenVars,
                         batchVars,
                         assessVars,
                         inplaceVars,
                         floodAreaVars,
                         analyzeVars>>
ScopeFrame  == UNCHANGED <<floodVars, aggVars, impactVars, fieldVars,
                         extVars,
                         scenVars,
                         batchVars,
                         assessVars,
                         inplaceVars,
                         floodAreaVars,
                         analyzeVars>>
ExtFrame    == UNCHANGED <<floodVars, aggVars, impactVars, fieldVars, scopeVars,
                         scenVars,
                         batchVars,
                         assessVars,
                         inplaceVars,
                         floodAreaVars,
                         analyzeVars>>
ScenFrame   == UNCHANGED <<floodVars, aggVars, impactVars, fieldVars, scopeVars,
                         extVars,
                         batchVars,
                         assessVars,
                         inplaceVars,
                         floodAreaVars,
                         analyzeVars>>
BatchFrame  == UNCHANGED <<floodVars, aggVars, impactVars, fieldVars, scopeVars,
                         extVars, scenVars,
                         assessVars,
                         inplaceVars,
                         floodAreaVars,
                         analyzeVars>>
AssessFrame == UNCHANGED <<floodVars, aggVars, fieldVars, scopeVars,
                         extVars, scenVars, batchVars,
                         inplaceVars,
                         floodAreaVars,
                         analyzeVars>>
InPlaceFrame == UNCHANGED <<floodVars, aggVars, fieldVars, scopeVars,
                         extVars, scenVars, batchVars, assessVars,
                         floodAreaVars,
                         analyzeVars>>
FloodAreaFrame == UNCHANGED <<aggVars, impactVars, fieldVars, scopeVars,
                         extVars, scenVars, batchVars, assessVars, inplaceVars,
                         analyzeVars>>
AnalyzeFrame == UNCHANGED <<floodVars, aggVars, impactVars, fieldVars, scopeVars,
                         extVars, scenVars, batchVars, assessVars, inplaceVars,
                         floodAreaVars>>

(***************************************************************************)
(* utils.flood_zones                                                       *)
(***************************************************************************)
\* Cells per grid (the grid is flattened: masking is cell by cell).
GridCells == 2

\* The no-data value: rasters_to_arrays asks arcpy for nodata_to_value=-999
\* and flood_zones writes it over invalid cells.
NODATA == -999

\* IEEE floating point values of an elevation cell.
Fin(n) == [cls |-> "fin", val |-> n]
NaN    == [cls |-> "nan", val |-> 0]
PosInf == [cls |-> "pinf", val |-> 0]
NegInf == [cls |-> "ninf", val |-> 0]

\* Sample values of the inputs.
ZoneValues      == {-1, 0, 1, 2}
ElevationValues == {NaN, PosInf, NegInf, Fin(NODATA), Fin(0), Fin(1), Fin(2)}
FloodElevations == {Fin(NODATA - 1), Fin(0), Fin(1)}

\* numpy's a > b on floats: false when either side is NaN.
FloatGT(a, b) ==
    CASE a.cls = "nan" \/ b.cls = "nan" -> FALSE
      [] a.cls = "pinf" -> b.cls # "pinf"
      [] a.cls = "ninf" -> FALSE
      [] b.cls = "pinf" -> FALSE
      [] b.cls = "ninf" -> TRUE
      [] OTHER -> a.val > b.val

\* numpy's a <= b on floats: false when either side is NaN.
FloatLE(a, b) ==
    CASE a.cls = "nan" \/ b.cls = "nan" -> FALSE
      [] OTHER -> ~FloatGT(a, b)

\* numpy.ma.masked_invalid(topo_array).mask: NaN and the infinities.
invalid_mask(topo) == [i \in DOMAIN topo |-> topo[i].cls # "fin"]

\* A faulty variant of the rewriting: only NaN cells are rewritten, infinite
\* cells are left as they are.
RewriteInvalid_nan_only(topo) ==
    [i \in DOMAIN topo |-> IF topo[i].cls = "nan" THEN Fin(NODATA) ELSE topo[i]]

\* topo_array[invalid_mask] = -999
RewriteInvalid(topo) ==
    [i \in DOMAIN topo |-> IF invalid_mask(topo)[i] THEN Fin(NODATA) ELSE topo[i]]

\* nonzone_mask = zones_array <= 0
nonzone_mask(zones) == [i \in DOMAIN zones |-> zones[i] <= 0]

\* unflooded_mask = topo_array > elevation (on the rewritten topo_array)
unflooded_mask(topo, elev) == [i \in DOMAIN topo |-> FloatGT(topo[i], elev)]

\* The array flood_zones returns.
flood_zones(zones, topo, elev) ==
    LET rewritten  == RewriteInvalid(topo)
        final_mask == [i \in DOMAIN zones |->
                          nonzone_mask(zones)[i] \/ unflooded_mask(rewritten, elev)[i]]
    IN  [i \in DOMAIN zones |-> IF final_mask[i] THEN 0 ELSE zones[i]]

IdleFlood ==
    /\ zones_array = <<>> /\ topo_array = <<>> /\ topo_input = <<>>
    /\ elevation = Fin(0) /\ flooded_array = <<>> /\ pcFlood = "idle"

InitFlood ==
    /\ zones_array \in [1..GridCells -> ZoneValues]
    /\ topo_array \in [1..GridCells -> ElevationValues]
    /\ topo_input = topo_array
    /\ elevation \in FloodElevations
    /\ flooded_array = <<>>
    /\ pcFlood = "ready"

\* One call flood_zones(zones_array, topo_array, elevation): the caller's
\* topo_array is rewritten in place, zones_array is copied.
FloodZones ==
    /\ pcFlood = "ready"
    /\ topo_array' = RewriteInvalid(topo_array)
    /\ flooded_array' = flood_zones(zones_array, topo_array, elevation)
    /\ pcFlood' = "done"
    /\ UNCHANGED <<zones_array, topo_input, elevation>>
    /\ FloodFrame

\* The caller masks the same grids again (the array it holds is the rewritten one).
FloodAgain ==
    /\ pcFlood = "done"
    /\ elevation' \in FloodElevations
    /\ topo_input' = topo_array
    /\ flooded_array' = <<>>
    /\ pcFlood' = "ready"
    /\ UNCHANGED <<zones_array, topo_array>>
    /\ FloodFrame

(***************************************************************************)
(* utils.groupby_and_aggregate                                             *)
(***************************************************************************)
\* Rows of the attribute table.
MaxRows == 3

\* Sample values of the columns of the layer.
GeoIDs    == {1, 2}
StructIDs == {7, 8}
Areas     == {0, 3}

LayerRows == [GeoID : GeoIDs, STRUCT_ID : StructIDs, AREA : Areas]

\* arcpy.ListFields(table): the names of the fields of the layer. The geometry
\* token SHAPE@AREA is readable through arcpy.da but is not a listed field.
existing_fields == {"FID", "Shape", "GeoID", "STRUCT_ID"}

\* Names a caller may pass as groupfield or valuefield.
FieldNames == {"GeoID", "STRUCT_ID", "SHAPE@AREA", "JUNK"}

\* The columns arcpy.da can read from the layer.
Readable(name) == name \in {"GeoID", "STRUCT_ID", "SHAPE@AREA"}

FieldValue(row, name) ==
    CASE name = "GeoID" -> row.GeoID
      [] name = "STRUCT_ID" -> row.STRUCT_ID
      [] name = "SHAPE@AREA" -> row.AREA
      [] OTHER -> 0

\* A faulty variant of _check_fields: only the first name is checked.
_check_fields_first(fields, names, should_exist) ==
    {names[i] : i \in {j \in DOMAIN names :
        j = 1 /\ should_exist # (names[j] \in fields) /\ names[j] # "SHAPE@AREA"}}

\* _check_fields: bad_names; a ValueError is raised when it is not empty.
_check_fields(fields, names, should_exist) ==
    {names[i] : i \in {j \in DOMAIN names :
        should_exist # (names[j] \in fields) /\ names[j] # "SHAPE@AREA"}}

\* arcpy.da.TableToNumPyArray(layer, [groupfield, valuefield]): one record
\* (group value, value) per row, in the order of the table.
TableToNumPyArray(rows, gf, vf) ==
    [i \in DOMAIN rows |-> <<FieldValue(rows[i], gf), FieldValue(rows[i], vf)>>]

\* The order numpy sorts records in: by the first field, then by the second.
RowLE(a, b) == a[1] < b[1] \/ (a[1] = b[1] /\ a[2] <= b[2])

RECURSIVE InsertRow(_, _)
InsertRow(r, s) ==
    IF s = <<>> THEN <<r>>
    ELSE IF RowLE(r, Head(s)) THEN <<r>> \o s
    ELSE <<Head(s)>> \o InsertRow(r, Tail(s))

RECURSIVE SortRows(_)
SortRows(s) == IF s = <<>> THEN <<>> ELSE InsertRow(Head(s), SortRows(Tail(s)))

\* A faulty variant of table_sort: the table is grouped in the order it was read.
table_unsorted(table) == table

\* table.sort()
table_sort(table) == SortRows(table)

\* itertools.groupby(table, lambda row: row[groupfield]): the runs of
\* consecutive rows with the same key, in order.
RECURSIVE GroupRuns(_)
GroupRuns(s) ==
    IF s = <<>> THEN <<>>
    ELSE LET rest == GroupRuns(Tail(s))
         IN  IF rest # <<>> /\ Head(rest)[1][1] = Head(s)[1]
             THEN <<<<Head(s)>> \o Head(rest)>> \o Tail(rest)
             ELSE <<<<Head(s)>>>> \o rest

RECURSIVE SumValues(_)
SumValues(run) == IF run = <<>> THEN 0 ELSE Head(run)[2] + SumValues(Tail(run))

\* A faulty variant of the default reducer: the rows of the group are counted.
aggfxn_rows(fxn, run) ==
    IF fxn = "None" THEN Len(run) ELSE SumValues(run)

RECURSIVE SumRowSet(_)
SumRowSet(S) ==
    IF S = {} THEN 0
    ELSE LET r == CHOOSE x \in S : TRUE IN r[2] + SumRowSet(S \ {r})

\* A faulty variant of the sum reducer: a value that occurs twice is added once.
aggfxn_sum_distinct(fxn, run) ==
    IF fxn = "None"
    THEN Cardinality({run[i] : i \in DOMAIN run})
    ELSE SumRowSet({run[i] : i \in DOMAIN run})

\* aggfxn(shapes). The default is int(numpy.unique(list(x)).shape[0]); "sum"
\* is the reducer of area_of_impacts, sum([row[1] for row in group]).
apply_aggfxn(fxn, run) ==
    IF fxn = "None"
    THEN Cardinality({run[i] : i \in DOMAIN run})
    ELSE SumValues(run)

\* counts = {}; for groupname, shapes in groupby(...): counts[groupname] = aggfxn(shapes)
RECURSIVE FillCounts(_, _, _)
FillCounts(runs, fxn, acc) ==
    IF runs = <<>> THEN acc
    ELSE FillCounts(Tail(runs), fxn,
                    (Head(runs)[1][1] :> apply_aggfxn(fxn, Head(runs))) @@ acc)

\* The mapping groupby_and_aggregate builds from the table it has read.
Aggregate(table, fxn) == FillCounts(GroupRuns(table_sort(table)), fxn, EmptyMap)

IdleAgg ==
    /\ layer = <<>> /\ groupfield = "" /\ valuefield = "" /\ aggfxn = "None"
    /\ counts = EmptyMap /\ rowsRead = 0 /\ pcAgg = "idle"

InitAgg ==
    /\ layer \in SeqsUpTo(LayerRows, MaxRows)
    /\ groupfield \in FieldNames
    /\ valuefield \in FieldNames \ {groupfield}
    /\ aggfxn \in {"None", "sum"}
    /\ counts = EmptyMap
    /\ rowsRead = 0
    /\ pcAgg = "ready"

\* One call groupby_and_aggregate(input_path, groupfield, valuefield, aggfxn).
GroupbyAndAggregate ==
    /\ pcAgg = "ready"
    /\ IF _check_fields(existing_fields, <<groupfield, valuefield>>, TRUE) # {}
       THEN /\ pcAgg' = "ValueError"
            /\ UNCHANGED <<counts, rowsRead>>
       ELSE IF ~(Readable(groupfield) /\ Readable(valuefield))
       THEN /\ pcAgg' = "RuntimeError"
            /\ UNCHANGED <<counts, rowsRead>>
       ELSE /\ rowsRead' = Len(layer)
            /\ counts' = Aggregate(TableToNumPyArray(layer, groupfield, valuefield), aggfxn)
            /\ pcAgg' = "returned"
    /\ UNCHANGED <<layer, groupfield, valuefield, aggfxn>>
    /\ AggFrame

(***************************************************************************)
(* analysis.area_of_impacts / analysis.count_of_impacts                    *)
(***************************************************************************)
\* Rows of the flood table, rows of an intersection output.
MaxFloodRows == 2
MaxAssetRows == 2

\* Values written for a zone the aggregation has no key for.
MISSING_AREA  == -999
MISSING_COUNT == -1

\* Sample values: zone ids of the flood table, areas of flooded wetlands.
ZoneIDs      == {1, 2}
WetlandAreas == {0, 5}

SeqRange(s) == {s[i] : i \in DOMAIN s}

\* arcpy.management.AddField on a shapefile: a field that is not there yet is
\* added with 0 in every row; a field that is there already is left as it is.
AddField(rows, name) ==
    [i \in DOMAIN rows |->
        IF name \in DOMAIN rows[i] THEN rows[i] ELSE (name :> 0) @@ rows[i]]

\* dict.get(key, default)
DictGet(mapping, key, default) ==
    IF key \in DOMAIN mapping THEN mapping[key] ELSE default

\* A faulty variant of populate_field: `mapping.get(key) or default`, which also
\* replaces a value of 0 by the default.
populate_field_or(rows, mapping, default, vfield, kfield) ==
    [i \in DOMAIN rows |->
        [rows[i] EXCEPT ![vfield] =
            IF DictGet(mapping, rows[i][kfield], 0) = 0
            THEN default ELSE mapping[rows[i][kfield]]]]

\* populate_field(table, lambda row: mapping.get(row[0], default), valuefield,
\* keyfield): every row gets the value computed from its key.
populate_field(rows, mapping, default, vfield, kfield) ==
    [i \in DOMAIN rows |->
        [rows[i] EXCEPT ![vfield] = DictGet(mapping, rows[i][kfield], default)]]

IdleImpact ==
    /\ floods = <<>> /\ floodFields = {} /\ wetlandsTable = <<>>
    /\ buildingsTable = <<>> /\ wetlandAreas = EmptyMap
    /\ buildingCounts = EmptyMap /\ impactDone = {"idle"}

\* The flood table has one row per zone (flood_area dissolves by zone id); the
\* flooded wetlands are the intersection dissolved by zone id (one row per
\* zone that overlaps a wetland); the flooded buildings are the intersection
\* itself (one row per fragment). Only zones of the flood table occur in them.
InitImpact ==
    /\ floods \in {f \in SeqsUpTo([GeoID : ZoneIDs], MaxFloodRows) :
                      \A i, j \in DOMAIN f : f[i].GeoID = f[j].GeoID => i = j}
    /\ floodFields = {"GeoID"}
    /\ wetlandsTable \in {t \in SeqsUpTo(ZoneIDs \X WetlandAreas, MaxAssetRows) :
                      /\ \A i, j \in DOMAIN t : t[i][1] = t[j][1] => i = j
                      /\ \A i \in DOMAIN t : \E k \in DOMAIN floods : floods[k].GeoID = t[i][1]}
    /\ buildingsTable \in {t \in SeqsUpTo(ZoneIDs \X StructIDs, MaxAssetRows) :
                      \A i \in DOMAIN t : \E k \in DOMAIN floods : floods[k].GeoID = t[i][1]}
    /\ wetlandAreas = EmptyMap
    /\ buildingCounts = EmptyMap
    /\ impactDone = {}

\* area_of_impacts(floods_path, flood_idcol, assets_input): the areas of the
\* flooded wetlands are summed per zone and written to the field `wetlands`.
area_of_impacts ==
    /\ "wetlands" \notin impactDone
    /\ "idle" \notin impactDone
    /\ wetlandAreas' = Aggregate(wetlandsTable, "sum")
    /\ floods' = populate_field(AddField(floods, "wetlands"), wetlandAreas',
                                MISSING_AREA, "wetlands", "GeoID")
    /\ floodFields' = floodFields \cup {"wetlands"}
    /\ impactDone' = impactDone \cup {"wetlands"}
    /\ UNCHANGED <<wetlandsTable, buildingsTable, buildingCounts>>
    /\ ImpactFrame

\* count_of_impacts(floods_path, flood_idcol, assets_input): the distinct
\* buildings are counted per zone and written to the field `buildings`.
count_of_impacts ==
    /\ "buildings" \notin impactDone
    /\ "idle" \notin impactDone
    /\ buildingCounts' = Aggregate(buildingsTable, "None")
    /\ floods' = populate_field(AddField(floods, "buildings"), buildingCounts',
                                MISSING_COUNT, "buildings", "GeoID")
    /\ floodFields' = floodFields \cup {"buildings"}
    /\ impactDone' = impactDone \cup {"buildings"}
    /\ UNCHANGED <<wetlandsTable, buildingsTable, wetlandAreas>>
    /\ ImpactFrame

(***************************************************************************)
(* utils.add_field_with_value                                              *)
(***************************************************************************)
\* Rows of the table, calls made on it.
TableRows == 2
MaxCalls  == 2

\* Python values a caller may pass as field_value.
PyNone  == [type |-> "NoneType", val |-> "None"]
PyInt   == [type |-> "int", val |-> "1"]
PyFloat == [type |-> "float", val |-> "2.0"]
PyStr   == [type |-> "str", val |-> "abc"]
PyValues == {PyNone, PyInt, PyFloat, PyStr}

\* typemap: how Esri maps python types to field types.
typemap(pytype) ==
    CASE pytype = "int" -> "LONG"
      [] pytype = "float" -> "DOUBLE"
      [] pytype = "str" -> "TEXT"
      [] OTHER -> "None"

\* field_opts.pop("field_type", typemap[type(field_value)])
EffectiveType(field_value, opt_type) ==
    IF opt_type = "absent" THEN typemap(field_value.type) ELSE opt_type

\* arcpy.management.AddField(in_table, field_name, field_type): a new field is
\* added; for a name the table already has the tool warns (000012) and
\* changes nothing.
AddFieldType(fields, name, ftype) ==
    IF name \in DOMAIN fields THEN fields ELSE (name :> ftype) @@ fields

AddFieldValues(fields, values, name) ==
    IF name \in DOMAIN fields THEN values
    ELSE (name :> [i \in 1..TableRows |-> PyNone]) @@ values

\* Whether the update cursor of populate_field stores a value in a field of
\* type ftype: text is refused by a numeric field (RuntimeError), a number
\* is stored, converted to the type of the field.
Storable(value, ftype) == value.type # "str" \/ ftype = "TEXT"

\* The value a field of type ftype holds after `value` was stored in it.
Coerce(value, ftype) ==
    CASE ftype = "LONG" /\ value.type = "float" -> [type |-> "int", val |-> "2"]
      [] ftype = "DOUBLE" /\ value.type = "int" -> [type |-> "float", val |-> "1.0"]
      [] ftype = "TEXT" /\ value.type \in {"int", "float"} -> [type |-> "str", val |-> value.val]
      [] OTHER -> value

IdleField ==
    /\ tblFields = EmptyMap /\ tblValues = EmptyMap
    /\ lastCall = [outcome |-> "idle"] /\ nCalls = 0

\* A table with the field "existing", of any type, holding a value of that type.
InitField ==
    /\ \E v \in PyValues \ {PyNone} :
          /\ tblFields = ("existing" :> typemap(v.type))
          /\ tblValues = ("existing" :> [i \in 1..TableRows |-> v])
    /\ lastCall = [outcome |-> "none"]
    /\ nCalls = 0

\* One call add_field_with_value(table, field_name, field_value, overwrite,
\* field_type=opt_type), with what the table held before it (existed,
\* typeBefore, valuesBefore) kept for the properties.
add_field_with_value(field_name, field_value, overwrite, opt_type) ==
    LET field_type == EffectiveType(field_value, opt_type)
        existed    == field_name \in DOMAIN tblFields
        call       == [field_name |-> field_name, field_value |-> field_value,
                       overwrite |-> overwrite, field_type |-> field_type,
                       existed |-> existed, outcome |-> "",
                       fieldsBefore |-> tblFields, valuesBefore |-> tblValues]
        fields2    == AddFieldType(tblFields, field_name, field_type)
        values2    == AddFieldValues(tblFields, tblValues, field_name)
    IN  /\ nCalls < MaxCalls
        /\ nCalls' = nCalls + 1
        /\ IF ~overwrite /\ _check_fields(DOMAIN tblFields, <<field_name>>, FALSE) # {}
           THEN /\ lastCall' = [call EXCEPT !.outcome = "ValueError"]
                /\ UNCHANGED <<tblFields, tblValues>>
           ELSE IF field_value = PyNone /\ field_type = "None"
           THEN /\ lastCall' = [call EXCEPT !.outcome = "ValueError"]
                /\ UNCHANGED <<tblFields, tblValues>>
           ELSE IF field_value = PyNone
           THEN /\ tblFields' = fields2
                /\ tblValues' = values2
                /\ lastCall' = [call EXCEPT !.outcome = "ok"]
           ELSE IF Storable(field_value, fields2[field_name])
           THEN /\ tblFields' = fields2
                /\ tblValues' = [values2 EXCEPT
                                    ![field_name] = [i \in 1..TableRows |->
                                                        Coerce(field_value, fields2[field_name])]]
                /\ lastCall' = [call EXCEPT !.outcome = "ok"]
           ELSE /\ tblFields' = fields2
                /\ tblValues' = values2
                /\ lastCall' = [call EXCEPT !.outcome = "RuntimeError"]

AddFieldWithValue ==
    \E field_name \in {"existing", "newfield"}, field_value \in PyValues,
       overwrite \in BOOLEAN, opt_type \in {"absent", "LONG", "DOUBLE", "TEXT"} :
        /\ add_field_with_value(field_name, field_value, overwrite, opt_type)
        /\ FieldFrame

(***************************************************************************)
(* utils.WorkSpace / utils.OverwriteState                                  *)
(***************************************************************************)
\* Scopes open at once, scope objects constructed ahead of their use in a run.
MaxDepth == 3
MaxObjs  == 1

\* Sample workspace paths.
Paths == {"C:/cwd", "C:/Users"}

\* The value a scope sets: a path for a WorkSpace, a flag for an OverwriteState.
ScopeValues(kind) == IF kind = "WorkSpace" THEN Paths ELSE {"True", "False"}

\* The global a scope of this kind manages.
Global(kind) == IF kind = "WorkSpace" THEN workspace ELSE overwriteOutput

\* A faulty variant of scope_init: the value to restore is read after the
\* scope has set its own.
scope_init_reads_new(kind, value) == [kind |-> kind, orig |-> value, new |-> value]

\* WorkSpace.__init__ / OverwriteState.__init__: the current value of the
\* global is remembered when the object is constructed.
scope_init(kind, value) == [kind |-> kind, orig |-> Global(kind), new |-> value]

\* A faulty variant of scope_exit_value: __exit__ leaves the value the scope had set.
scope_exit_keeps(scope) == scope.new

\* A faulty variant of scope_exit_value: __exit__ sets the value from before any scope.
scope_exit_to_start(scope) ==
    IF scope.kind = "WorkSpace" THEN baseline[1] ELSE baseline[2]

\* WorkSpace.__exit__ / OverwriteState.__exit__: the value the global is set to.
scope_exit_value(scope) == scope.orig

\* WorkSpace.__enter__ / OverwriteState.__enter__: the value the global is set to.
scope_enter_value(scope) == scope.new

IdleScope ==
    /\ workspace = "" /\ overwriteOutput = "" /\ stack = <<>> /\ objs = {}
    /\ constructed = 0
    /\ exc = FALSE /\ lastExit = [valid |-> FALSE] /\ baseline = <<"", "">>

InitScope ==
    /\ workspace \in Paths
    /\ overwriteOutput \in {"True", "False"}
    /\ stack = <<>>
    /\ objs = {}
    /\ constructed = 0
    /\ exc = FALSE
    /\ lastExit = [valid |-> FALSE]
    /\ baseline = <<workspace, overwriteOutput>>

\* __enter__ of a scope object: the global is set and the block is entered.
\* `prior` keeps the value the global had at entry; the code does not read it.
Entered(scope) ==
    /\ Len(stack) < MaxDepth
    /\ ~exc
    /\ stack' = Append(stack, [kind |-> scope.kind, orig |-> scope.orig,
                               new |-> scope.new, prior |-> Global(scope.kind)])
    /\ IF scope.kind = "WorkSpace"
       THEN workspace' = scope_enter_value(scope) /\ UNCHANGED overwriteOutput
       ELSE overwriteOutput' = scope_enter_value(scope) /\ UNCHANGED workspace
    /\ lastExit' = [valid |-> FALSE]
    /\ UNCHANGED <<constructed, exc, baseline>>
    /\ ScopeFrame

\* with utils.WorkSpace(path): / with utils.OverwriteState(flag): the object
\* is constructed and entered by the one statement.
WithStatement ==
    \E kind \in {"WorkSpace", "OverwriteState"} : \E value \in ScopeValues(kind) :
        /\ Entered(scope_init(kind, value))
        /\ UNCHANGED objs

\* scope = utils.WorkSpace(path), to be entered by a later with-statement.
Construct ==
    \E kind \in {"WorkSpace", "OverwriteState"} : \E value \in ScopeValues(kind) :
        /\ ~exc
        /\ constructed < MaxObjs
        /\ scope_init(kind, value) \notin objs
        /\ objs' = objs \cup {scope_init(kind, value)}
        /\ constructed' = constructed + 1
        /\ lastExit' = [valid |-> FALSE]
        /\ UNCHANGED <<workspace, overwriteOutput, stack, exc, baseline>>
        /\ ScopeFrame

\* with scope: on an object constructed earlier.
WithObject ==
    \E scope \in objs :
        /\ Entered(scope)
        /\ objs' = objs \ {scope}

\* The innermost scope is left: __exit__ runs, whether the block completed
\* or an exception is passing through it (__exit__ returns None, so the
\* exception goes on). lastExit records the step for the properties.
LeaveScope(byException) ==
    LET scope == stack[Len(stack)]
    IN  /\ stack # <<>>
        /\ stack' = SubSeq(stack, 1, Len(stack) - 1)
        /\ IF scope.kind = "WorkSpace"
           THEN workspace' = scope_exit_value(scope) /\ UNCHANGED overwriteOutput
           ELSE overwriteOutput' = scope_exit_value(scope) /\ UNCHANGED workspace
        /\ lastExit' = [valid |-> TRUE, kind |-> scope.kind, prior |-> scope.prior,
                        new |-> scope.new, byException |-> byException,
                        restored |-> scope_exit_value(scope)]
        /\ UNCHANGED <<objs, constructed, exc, baseline>>
        /\ ScopeFrame

\* The block of the innermost scope completes.
ExitNormally == ~exc /\ LeaveScope(FALSE)

\* An exception is raised inside the innermost block.
RaiseInBlock ==
    /\ stack # <<>>
    /\ ~exc
    /\ exc' = TRUE
    /\ lastExit' = [valid |-> FALSE]
    /\ UNCHANGED <<workspace, overwriteOutput, stack, objs, constructed, baseline>>
    /\ ScopeFrame

\* The exception unwinds the innermost scope.
ExitByException == exc /\ LeaveScope(TRUE)

\* The exception has left every scope and is caught by the caller.
Caught ==
    /\ exc
    /\ stack = <<>>
    /\ exc' = FALSE
    /\ UNCHANGED <<workspace, overwriteOutput, stack, objs, constructed, lastExit, baseline>>
    /\ ScopeFrame

(***************************************************************************)
(* utils.Extension                                                         *)
(***************************************************************************)
\* Extension blocks open at once.
MaxExtDepth == 2

\* Sample extension names.
ExtensionNames == {"spatial", "3D", "network"}

\* arcpy.CheckExtension(name): the license can be checked out.
CheckExtension(name) == IF name \in extAvailable THEN "Available" ELSE "Unavailable"

\* arcpy.CheckOutExtension(name): the process holds the extension afterwards.
CheckOutExtension(held, name) == held \cup {name}

IdleExt ==
    /\ extAvailable = {} /\ extHeld = {} /\ extStack = <<>>
    /\ extExc = FALSE /\ extLast = [valid |-> FALSE]

InitExt ==
    /\ extAvailable \in SUBSET ExtensionNames
    /\ extHeld = {}
    /\ extStack = <<>>
    /\ extExc = FALSE
    /\ extLast = [valid |-> FALSE]

\* with utils.Extension(name): __enter__ checks the extension out when it is
\* available and the block is entered.
ExtensionEnter ==
    \E name \in ExtensionNames :
        /\ ~extExc
        /\ Len(extStack) < MaxExtDepth
        /\ CheckExtension(name) = "Available"
        /\ extHeld' = CheckOutExtension(extHeld, name)
        /\ extStack' = Append(extStack, name)
        /\ extLast' = [valid |-> FALSE]
        /\ UNCHANGED <<extAvailable, extExc>>
        /\ ExtFrame

\* with utils.Extension(name): __enter__ raises RuntimeError when the
\* extension is not available; the block is not entered and __exit__ of this
\* object does not run.
ExtensionUnavailable ==
    \E name \in ExtensionNames :
        /\ ~extExc
        /\ Len(extStack) < MaxExtDepth
        /\ CheckExtension(name) # "Available"
        /\ extExc' = TRUE
        /\ extLast' = [valid |-> FALSE]
        /\ UNCHANGED <<extAvailable, extHeld, extStack>>
        /\ ExtFrame

\* Extension.__exit__ of the innermost block: it calls
\* arcpy.CheckOutExtension(self.name) and returns None, so an exception
\* passing through goes on.
ExtensionLeave(byException) ==
    LET name == extStack[Len(extStack)]
    IN  /\ extStack # <<>>
        /\ extStack' = SubSeq(extStack, 1, Len(extStack) - 1)
        /\ extHeld' = CheckOutExtension(extHeld, name)
        /\ extLast' = [valid |-> TRUE, name |-> name, byException |-> byException]
        /\ UNCHANGED <<extAvailable, extExc>>
        /\ ExtFrame

\* The block of the innermost Extension completes.
ExtensionExitNormally == ~extExc /\ ExtensionLeave(FALSE)

\* An exception is raised inside the innermost Extension block.
ExtensionRaiseInBlock ==
    /\ extStack # <<>>
    /\ ~extExc
    /\ extExc' = TRUE
    /\ extLast' = [valid |-> FALSE]
    /\ UNCHANGED <<extAvailable, extHeld, extStack>>
    /\ ExtFrame

\* The exception unwinds the innermost Extension block.
ExtensionExitByException == extExc /\ ExtensionLeave(TRUE)

\* The exception has left every block and is caught by the caller.
ExtensionCaught ==
    /\ extExc
    /\ extStack = <<>>
    /\ extExc' = FALSE
    /\ UNCHANGED <<extAvailable, extHeld, extStack, extLast>>
    /\ ExtFrame

(***************************************************************************)
(* toolbox.StandardScenarios.make_scenarios / _prep_flooder_input          *)
(* Elevations are kept as whole tenths of a foot.                          *)
(***************************************************************************)
\* Custom elevations in one call.
MaxElevations == 3

\* SEALEVELRISE = numpy.arange(7)
SEALEVELRISE == [i \in 1..7 |-> [type |-> "int", val |-> i - 1]]

\* SURGES, an OrderedDict: the items in insertion order.
SURGES ==
    << [surge_name |-> "MHHW",  surge_elev |-> 40],
       [surge_name |-> "10yr",  surge_elev |-> 80],
       [surge_name |-> "50yr",  surge_elev |-> 96],
       [surge_name |-> "100yr", surge_elev |-> 105] >>

\* Python values of a scenario: a str, an int, a float (in tenths).
PyStrOf(s) == [type |-> "str", val |-> s]
PyIntOf(n) == [type |-> "int", val |-> n]
PyFloatOf(n) == [type |-> "float", tenths |-> n]

\* Python's None as a scenario entry.
None == [type |-> "NoneType"]

\* The text of a parameter (valueAsText) and the number float() reads from it.
ElevationTexts == {"7.8", "0.5"}
ParseTenths(text) == IF text = "7.8" THEN 78 ELSE 5

\* One supplied elevation: text from the tool dialog, or a number from a
\* caller of main_execute.
ElevationInputs ==
    [type : {"str"}, text : ElevationTexts]
        \cup [type : {"float"}, tenths : {86}]
        \cup [type : {"int"}, tenths : {90}]

\* The 'elevation' parameter: absent, one scalar, or a list.
ElevationParams ==
    {[kind |-> "None"]}
        \cup [kind : {"scalar"}, value : ElevationInputs]
        \cup [kind : {"list"}, items : SeqsUpTo(ElevationInputs, MaxElevations)]

\* numpy.isscalar: true of a number and of a string.
isscalar(elevations) == elevations.kind = "scalar"

\* A faulty variant of float: the value is passed on as it is.
float_unconverted(x) == x

\* float(x): a string is parsed, an int is widened.
float(x) ==
    [type |-> "float",
     tenths |-> IF x.type = "str" THEN ParseTenths(x.text) ELSE x.tenths]

\* A faulty variant of StandardElevation: the sea level rise is left out.
StandardElevation_no_slr(surge, slr) ==
    LET surge_elev == (CHOOSE s \in {SURGES[i] : i \in DOMAIN SURGES} :
                           s.surge_name = surge.val).surge_elev
    IN  PyFloatOf(surge_elev)

\* slr + SURGES[surge], as a float (standard scenario).
StandardElevation(surge, slr) ==
    LET surge_elev == (CHOOSE s \in {SURGES[i] : i \in DOMAIN SURGES} :
                           s.surge_name = surge.val).surge_elev
    IN  PyFloatOf(slr.val * 10 + surge_elev)

\* The standard scenarios: for each surge, in order, every sea level rise.
StandardScenarioList ==
    [k \in 1..(Len(SURGES) * Len(SEALEVELRISE)) |->
        LET s == ((k - 1) \div Len(SEALEVELRISE)) + 1
            j == ((k - 1) % Len(SEALEVELRISE)) + 1
        IN  [elev |-> None,
             surge_name |-> PyStrOf(SURGES[s].surge_name),
             surge_elev |-> PyFloatOf(SURGES[s].surge_elev),
             slr |-> SEALEVELRISE[j]]]

\* The custom scenarios: one per elevation, in the order given.
CustomScenarioList(elevations) ==
    [i \in DOMAIN elevations |->
        [elev |-> float(elevations[i]), surge_name |-> None,
         surge_elev |-> None, slr |-> None]]

\* make_scenarios(**params)
make_scenarios(elevations) ==
    IF elevations.kind = "None"
    THEN StandardScenarioList
    ELSE CustomScenarioList(IF isscalar(elevations) THEN <<elevations.value>>
                            ELSE elevations.items)

\* _prep_flooder_input(elev, surge, slr): the flood elevation of a scenario.
_prep_flooder_input(elev, surge, slr) ==
    IF elev = None THEN StandardElevation(surge, slr) ELSE float(elev)

IdleScen ==
    /\ elevationParam = [kind |-> "idle"] /\ scenario_list = <<>>
    /\ prepElevations = <<>> /\ pcScen = "idle"

InitScen ==
    /\ elevationParam \in ElevationParams
    /\ scenario_list = <<>>
    /\ prepElevations = <<>>
    /\ pcScen = "ready"

\* scenarios = self.make_scenarios(**params)
MakeScenarios ==
    /\ pcScen = "ready"
    /\ scenario_list' = make_scenarios(elevationParam)
    /\ pcScen' = "made"
    /\ UNCHANGED <<elevationParam, prepElevations>>
    /\ ScenFrame

\* analyze -> _prep_flooder_input for the next scenario of the list.
PrepFlooderInput ==
    /\ pcScen = "made"
    /\ Len(prepElevations) < Len(scenario_list)
    /\ prepElevations' = Append(prepElevations,
           LET scenario == scenario_list[Len(prepElevations) + 1]
           IN  _prep_flooder_input(scenario.elev, scenario.surge_name,
                                   scenario.slr))
    /\ UNCHANGED <<elevationParam, scenario_list, pcScen>>
    /\ ScenFrame

(***************************************************************************)
(* toolbox.StandardScenarios.main_execute / analyze / finish_results       *)
(***************************************************************************)
\* Custom elevations in one batch run.
MaxBatchElevations == 2

\* Zone ids of the zones of influence, and the features of the asset layers.
BatchZones == {1, 2}
WetlandFeatures == <<"w1", "w2">>
BuildingFeatures == <<"b1">>

\* The 'elevation' parameter of a batch run: absent (standard scenarios) or
\* the list the tool dialog hands over ('elevation' is a required parameter
\* of the custom tool, so the list is not empty).
BatchElevationParams ==
    {[kind |-> "None"]}
        \cup [kind : {"list"},
              items : SeqsUpTo([type : {"str"}, text : ElevationTexts],
                               MaxBatchElevations) \ {<<>>}]

\* The geodata: the zones with flooded cells (one dissolved row each) and,
\* per zone, the wetland features its flooded wetlands meet.
Worlds ==
    [flooded : {<<1>>, <<1, 2>>},
     hits : [BatchZones -> {{"w1"}, {"w1", "w2"}}]]

\* A dataset path: prefix, name, scenario number.
Path(prefix, name, n) == <<prefix, name, n>>

\* create_temp_filename(filepath, prefix=...)
create_temp_filename(filepath, prefix) == <<prefix, filepath[2], filepath[3]>>

\* The paths main_execute and analyze work with.
flood_output == Path("", "flood_output", 0)
wetland_output == Path("", "wetland_output", 0)
building_output == Path("", "building_output", 0)
floods_path(n) == Path("", "floods", n)
wl_path(n) == create_temp_filename(floods_path(n), "_wetlands_")
bldg_path(n) == create_temp_filename(floods_path(n), "_buildings_")

\* A row of a layer. `num` is the scenario that produced the row, `sources`
\* the features of the asset layer the row's geometry meets, `target` the
\* baseline feature a spatial join matched it with.
NewRow(zone, n, sources) ==
    [zone |-> zone, num |-> n, flood_elev |-> None, surge |-> None,
     slr |-> None, sources |-> sources, target |-> ""]

\* str(surge), int(slr)
str(x) == PyStrOf(x.val)
int(x) == PyIntOf(x.val)

\* _add_scenario_columns(layer, elev, surge, slr): a field is added and set
\* in every row for each of the three that is not None.
_add_scenario_columns(rows, elev, surge, slr) ==
    [i \in DOMAIN rows |->
        [rows[i] EXCEPT
            !.flood_elev = IF elev # None THEN float(elev) ELSE @,
            !.surge = IF surge # None THEN str(surge) ELSE @,
            !.slr = IF slr # None THEN int(slr) ELSE @]]

\* The rows of several datasets, one after the other.
RECURSIVE ConcatRows(_, _)
ConcatRows(files, paths) ==
    IF paths = <<>> THEN <<>>
    ELSE files[Head(paths)] \o ConcatRows(files, Tail(paths))

\* The datasets with one written (overwriteOutput is True in a batch run).
WriteFile(files, path, rows) ==
    [p \in DOMAIN files \cup {path} |-> IF p = path THEN rows ELSE files[p]]

\* The datasets without some of them.
DeleteFiles(files, gone) == [p \in DOMAIN files \ gone |-> files[p]]

\* A faulty variant of concat_results: one row is kept per zone.
concat_results_one_per_zone(files, destination, input_files) ==
    LET rows == ConcatRows(files, input_files)
        first == {i \in DOMAIN rows :
                     \A j \in 1..(i - 1) : rows[j].zone # rows[i].zone}
        keep == SelectSeq([i \in DOMAIN rows |-> <<i, rows[i]>>],
                          LAMBDA p : p[1] \in first)
    IN  [files |-> WriteFile(files, destination,
                             [i \in DOMAIN keep |-> keep[i][2]]),
         raised |-> FALSE]

\* concat_results(destination, *input_files): arcpy.management.Merge writes
\* the rows of the inputs, one input after the other; it fails when an input
\* does not exist.
concat_results(files, destination, input_files) ==
    IF \A i \in DOMAIN input_files : input_files[i] \in DOMAIN files
    THEN [files |-> WriteFile(files, destination, ConcatRows(files, input_files)),
          raised |-> FALSE]
    ELSE [files |-> files, raised |-> TRUE]

\* A faulty variant of the join (JOIN_ONE_TO_ONE): a target feature gets the
\* first join row that meets it and no other.
JoinOneTarget_one_to_one(target, rows) ==
    LET met == SelectSeq(rows, LAMBDA r : target \in r.sources)
    IN  IF met = <<>> THEN <<>> ELSE <<[met[1] EXCEPT !.target = target]>>

\* The rows of a spatial join for one target feature: every join row whose
\* geometry meets it.
JoinOneTarget(target, rows) ==
    LET met == SelectSeq(rows, LAMBDA r : target \in r.sources)
    IN  [i \in DOMAIN met |-> [met[i] EXCEPT !.target = target]]

\* arcpy.analysis.SpatialJoin(JOIN_ONE_TO_MANY, KEEP_COMMON, INTERSECT): one
\* row per pair of a target feature and a join row that meet.
RECURSIVE SpatialJoin(_, _)
SpatialJoin(targets, rows) ==
    IF targets = <<>> THEN <<>>
    ELSE JoinOneTarget(Head(targets), rows) \o SpatialJoin(Tail(targets), rows)

\* join_results_to_baseline(destination, result_file, baseline_file)
join_results_to_baseline(files, destination, result_file, baseline_file) ==
    WriteFile(files, destination, SpatialJoin(baseline_file, files[result_file]))

\* cleanup_temp_results(*results): arcpy.management.Delete on each in turn.
\* Delete fails on a dataset that does not exist (ERROR 000732) and nothing
\* catches the error, so the targets after it are not reached.
cleanup_temp_results(files, results) ==
    LET gone(i) == \/ results[i] \notin DOMAIN files
                   \/ \E j \in 1..(i - 1) : results[j] = results[i]
        bad == {i \in DOMAIN results : gone(i)}
        stop == IF bad = {} THEN Len(results) + 1
                ELSE CHOOSE i \in bad : \A j \in bad : i <= j
    IN  [files |-> DeleteFiles(files, {results[i] : i \in 1..(stop - 1)}),
         raised |-> bad # {}]

\* finish_results(outputname, results, sourcename=None, cleanup=True).
\* `merged` and `joined` tell which steps were completed.
finish_results(files, outputname, results, sourcename, cleanup) ==
    LET tmp_fname == create_temp_filename(outputname, "_temp_")
        concat == IF outputname = None THEN [files |-> files, raised |-> FALSE]
                  ELSE IF sourcename # None
                       THEN concat_results(files, tmp_fname, results)
                       ELSE concat_results(files, outputname, results)
        joins == outputname # None /\ sourcename # None /\ ~concat.raised
        join == IF joins
                THEN cleanup_temp_results(
                         join_results_to_baseline(concat.files, outputname,
                                                  tmp_fname, sourcename.features),
                         <<tmp_fname>>)
                ELSE concat
        clean == IF cleanup /\ ~join.raised
                 THEN cleanup_temp_results(join.files, results)
                 ELSE join
    IN  [files |-> clean.files, raised |-> clean.raised,
         merged |-> outputname # None /\ ~concat.raised,
         joined |-> joins]

\* process_dem_and_zones(dem, zones, ID_column): the arrays and the template
\* of one rasterization; `id` tells the results of two calls apart.
process_dem_and_zones(call) == [id |-> call]

\* A faulty variant of AnalyzeArrays: every scenario gets arrays of its own.
AnalyzeArrays_per_scenario(rasterized, n) == [id |-> rasterized.id + n + 1]

\* The topo_array, zones_array and template main_execute passes to analyze
\* for scenario n.
AnalyzeArrays(rasterized, n) == rasterized

\* A faulty variant of AfterFailure: the error is swallowed and the step is
\* tried again.
AfterFailure_retry(pos) == pos

\* Where main_execute is after a step raised: nothing catches the error.
AfterFailure(pos) == "aborted"

\* A faulty variant of AfterScenario: the merge starts after the first scenario.
AfterScenario_merge_early(n, scenario_count) == "finish_floods"

\* Where main_execute is after scenario n: at the next scenario, or past
\* the loop.
AfterScenario(n, scenario_count) ==
    IF n + 1 < scenario_count THEN "scenario" ELSE "finish_floods"

\* Where main_execute goes after the flood results are finished / after the
\* wetlands results are finished.
AfterFloods(params) ==
    IF params.wetlands THEN "finish_wetlands"
    ELSE IF params.buildings THEN "finish_buildings" ELSE "return"
AfterWetlands(params) == IF params.buildings THEN "finish_buildings" ELSE "return"

\* A stage passed, for the record of the run.
Stage(name, n) == [stage |-> name, num |-> n]

IdleBatch ==
    /\ bParams = [kind |-> "idle"] /\ world = [kind |-> "idle"] /\ bpc = "idle"
    /\ num = 0 /\ scenarios = <<>> /\ arrays = None /\ rasterCalls = 0
    /\ bfiles = <<>> /\ all_floods = <<>> /\ all_wetlands = <<>>
    /\ all_buildings = <<>> /\ contributed = <<>> /\ trace = <<>>
    /\ bexc = FALSE

InitBatch ==
    /\ bParams \in [elevation : BatchElevationParams,
                    wetlands : BOOLEAN, buildings : BOOLEAN]
    /\ world \in Worlds
    /\ bpc = "start"
    /\ num = 0
    /\ scenarios = <<>>
    /\ arrays = None
    /\ rasterCalls = 0
    /\ bfiles = <<>>
    /\ all_floods = <<>> /\ all_wetlands = <<>> /\ all_buildings = <<>>
    /\ contributed = [floods |-> <<>>, wetlands |-> <<>>, buildings |-> <<>>]
    /\ trace = <<>>
    /\ bexc = FALSE

\* The scenario of the loop and the flood elevation analyze computes for it.
Scenario == scenarios[num + 1]
ScenarioElevation ==
    _prep_flooder_input(Scenario.elev, Scenario.surge_name, Scenario.slr)

\* main_execute up to the loop: process_dem_and_zones is called and the
\* list of scenarios is made.
Rasterize ==
    /\ bpc = "start"
    /\ arrays' = process_dem_and_zones(rasterCalls + 1)
    /\ rasterCalls' = rasterCalls + 1
    /\ scenarios' = make_scenarios(bParams.elevation)
    /\ bpc' = "scenario"
    /\ trace' = Append(trace, Stage("Rasterized", 0))
    /\ UNCHANGED <<bParams, world, num, bfiles, all_floods, all_wetlands,
                   all_buildings, contributed, bexc>>
    /\ BatchFrame

\* analyze -> flood_area: the zones are masked with the flood elevation.
Mask ==
    /\ bpc = "scenario"
    /\ bpc' = "masked"
    /\ trace' = Append(trace, [stage |-> "Masked", num |-> num,
                               arrays |-> AnalyzeArrays(arrays, num)])
    /\ UNCHANGED <<bParams, world, num, scenarios, arrays, rasterCalls, bfiles,
                   all_floods, all_wetlands, all_buildings, contributed, bexc>>
    /\ BatchFrame

\* flood_area: the flooded array is turned into a raster and into polygons.
Vectorize ==
    /\ bpc = "masked"
    /\ bpc' = "vectorized"
    /\ trace' = Append(trace, Stage("Vectorized", num))
    /\ UNCHANGED <<bParams, world, num, scenarios, arrays, rasterCalls, bfiles,
                   all_floods, all_wetlands, all_buildings, contributed, bexc>>
    /\ BatchFrame

\* flood_area: the polygons are dissolved by zone into the flood layer of
\* the scenario.
Dissolve ==
    /\ bpc = "vectorized"
    /\ bfiles' = WriteFile(bfiles, floods_path(num),
                     [i \in DOMAIN world.flooded |->
                         NewRow(world.flooded[i], num, {})])
    /\ bpc' = "dissolved"
    /\ trace' = Append(trace, Stage("Dissolved", num))
    /\ UNCHANGED <<bParams, world, num, scenarios, arrays, rasterCalls,
                   all_floods, all_wetlands, all_buildings, contributed, bexc>>
    /\ BatchFrame

\* analyze: the scenario columns are added to the flood layer.
TagFloods ==
    /\ bpc = "dissolved"
    /\ bfiles' = WriteFile(bfiles, floods_path(num),
                     _add_scenario_columns(bfiles[floods_path(num)],
                         ScenarioElevation, Scenario.surge_name, Scenario.slr))
    /\ bpc' = "tagged"
    /\ trace' = Append(trace, Stage("Tagged", num))
    /\ UNCHANGED <<bParams, world, num, scenarios, arrays, rasterCalls,
                   all_floods, all_wetlands, all_buildings, contributed, bexc>>
    /\ BatchFrame

\* analyze -> assess_impact: the layers of flooded wetlands (one dissolved
\* row per zone) and of flooded buildings are written for the asset layers
\* that were supplied.
AssessImpact ==
    LET wetlandRows == [i \in DOMAIN world.flooded |->
                           NewRow(world.flooded[i], num,
                                  world.hits[world.flooded[i]])]
        buildingRows == [i \in DOMAIN world.flooded |->
                            NewRow(world.flooded[i], num, {"b1"})]
        withWetlands == IF bParams.wetlands
                        THEN WriteFile(bfiles, wl_path(num), wetlandRows)
                        ELSE bfiles
    IN  /\ bpc = "tagged"
        /\ bfiles' = IF bParams.buildings
                     THEN WriteFile(withWetlands, bldg_path(num), buildingRows)
                     ELSE withWetlands
        /\ bpc' = "assessed"
        /\ trace' = Append(trace, Stage("ImpactAssessed", num))
        /\ UNCHANGED <<bParams, world, num, scenarios, arrays, rasterCalls,
                       all_floods, all_wetlands, all_buildings, contributed, bexc>>
        /\ BatchFrame

\* The end of analyze and of the loop body: the scenario columns are added
\* to the wetlands layer when there is one, and the paths of the layers are
\* appended to the lists of results.
FinishScenario ==
    LET files == IF bParams.wetlands
                 THEN WriteFile(bfiles, wl_path(num),
                          _add_scenario_columns(bfiles[wl_path(num)],
                              ScenarioElevation, Scenario.surge_name,
                              Scenario.slr))
                 ELSE bfiles
    IN  /\ bpc = "assessed"
        /\ bfiles' = files
        /\ all_floods' = Append(all_floods, floods_path(num))
        /\ all_wetlands' = IF bParams.wetlands
                           THEN Append(all_wetlands, wl_path(num))
                           ELSE all_wetlands
        /\ all_buildings' = IF bParams.buildings
                            THEN Append(all_buildings, bldg_path(num))
                            ELSE all_buildings
        /\ contributed' =
               [floods |-> Append(contributed.floods, files[floods_path(num)]),
                wetlands |-> IF bParams.wetlands
                             THEN Append(contributed.wetlands, files[wl_path(num)])
                             ELSE contributed.wetlands,
                buildings |-> IF bParams.buildings
                              THEN Append(contributed.buildings,
                                          files[bldg_path(num)])
                              ELSE contributed.buildings]
        /\ num' = num + 1
        /\ bpc' = AfterScenario(num, Len(scenarios))
        /\ UNCHANGED <<bParams, world, scenarios, arrays, rasterCalls, trace, bexc>>
        /\ BatchFrame

\* What a call of finish_results in main_execute leaves behind.
Finished(result, next) ==
    /\ bfiles' = result.files
    /\ bpc' = IF result.raised THEN AfterFailure(bpc) ELSE next
    /\ bexc' = result.raised
    /\ trace' = trace
                 \o (IF result.merged THEN <<Stage("Merged", num)>> ELSE <<>>)
                 \o (IF result.joined THEN <<Stage("JoinedToBaseline", num)>>
                     ELSE <<>>)
                 \o (IF result.raised THEN <<Stage("Failed", num)>> ELSE <<>>)
    /\ UNCHANGED <<bParams, world, num, scenarios, arrays, rasterCalls,
                   all_floods, all_wetlands, all_buildings, contributed>>
    /\ BatchFrame

\* self.finish_results(params['flood_output'], all_floods)
FinishFloods ==
    /\ bpc = "finish_floods"
    /\ Finished(finish_results(bfiles, flood_output, all_floods, None, TRUE),
                AfterFloods(bParams))

\* self.finish_results(wtld_output, all_wetlands, sourcename=params['wetlands'])
FinishWetlands ==
    /\ bpc = "finish_wetlands"
    /\ Finished(finish_results(bfiles, wetland_output, all_wetlands,
                               [features |-> WetlandFeatures], TRUE),
                AfterWetlands(bParams))

\* self.finish_results(bldg_output, all_buildings, sourcename=params['buildings'])
FinishBuildings ==
    /\ bpc = "finish_buildings"
    /\ Finished(finish_results(bfiles, building_output, all_buildings,
                               [features |-> BuildingFeatures], TRUE),
                "return")

\* The with-block of main_execute is left and main_execute returns.
Return ==
    /\ bpc = "return"
    /\ bpc' = "done"
    /\ trace' = Append(trace, Stage("Done", num))
    /\ UNCHANGED <<bParams, world, num, scenarios, arrays, rasterCalls, bfiles,
                   all_floods, all_wetlands, all_buildings, contributed, bexc>>
    /\ BatchFrame

\* The step main_execute is about to take raises (a geoprocessing call
\* fails): main_execute has no handler, the with-block lets the exception
\* pass and it leaves main_execute.
Fail ==
    /\ bpc \in {"start", "scenario", "masked", "vectorized", "dissolved",
                "tagged", "assessed", "finish_floods", "finish_wetlands",
                "finish_buildings"}
    /\ bpc' = AfterFailure(bpc)
    /\ bexc' = (AfterFailure(bpc) = "aborted")
    /\ trace' = Append(trace, Stage("Failed", num))
    /\ UNCHANGED <<bParams, world, num, scenarios, arrays, rasterCalls, bfiles,
                   all_floods, all_wetlands, all_buildings, contributed>>
    /\ BatchFrame

\* Per-scenario results handed to one call of finish_results.
MaxResults == 3

\* The arguments of a call of finish_results on its own: up to MaxResults
\* per-scenario layers, of which `present` exist when the call is made.
FinishCall(o, s, c, k, p) ==
    [outputname |-> IF o THEN flood_output ELSE None,
     results |-> [i \in 1..k |-> floods_path(i - 1)],
     sourcename |-> IF s THEN [features |-> WetlandFeatures] ELSE None,
     cleanup |-> c, present |-> p]

InitFinish ==
    /\ \E o \in BOOLEAN, s \in BOOLEAN, c \in BOOLEAN, k \in 1..MaxResults :
           \E p \in SUBSET {floods_path(i) : i \in 0..(k - 1)} :
               bParams = FinishCall(o, s, c, k, p)
    /\ bfiles = [p \in bParams.present |-> <<NewRow(1, p[3], {"w1"})>>]
    /\ bpc = "call"
    /\ world = [kind |-> "idle"]
    /\ num = 0 /\ scenarios = <<>> /\ arrays = None /\ rasterCalls = 0
    /\ all_floods = <<>> /\ all_wetlands = <<>> /\ all_buildings = <<>>
    /\ contributed = <<>> /\ trace = <<>>
    /\ bexc = FALSE

\* finish_results(outputname, results, sourcename=..., cleanup=...)
FinishResults ==
    LET result == finish_results(bfiles, bParams.outputname, bParams.results,
                                 bParams.sourcename, bParams.cleanup)
    IN  /\ bpc = "call"
        /\ bfiles' = result.files
        /\ bpc' = IF result.raised THEN "raised" ELSE "returned"
        /\ bexc' = result.raised
        /\ UNCHANGED <<bParams, world, num, scenarios, arrays, rasterCalls,
                       all_floods, all_wetlands, all_buildings, contributed,
                       trace>>
        /\ BatchFrame

(***************************************************************************)
(* analysis.assess_impact                                                  *)
(***************************************************************************)
\* The asset layers a call is given and the datasets it writes.
WETLANDS_PATH    == PyStrOf("wetlands.shp")
BUILDINGS_PATH   == PyStrOf("buildings.shp")
WETLANDS_OUTPUT  == PyStrOf(Path("", "flooded_wetlands", 0))
BUILDINGS_OUTPUT == PyStrOf(Path("", "flooded_buildings", 0))

\* The intersection of the floods with the wetlands, which area_of_impacts
\* writes before it dissolves it into the output.
TempIntersection == create_temp_filename(WETLANDS_OUTPUT.val, "_temp_")

\* SHAPE@AREA of a flood polygon (sample geometry: one polygon per zone).
ShapeArea(row) == 10 * row.GeoID

\* A faulty variant of the first step: the field is added when it is missing
\* but its values are not written.
TotalArea_not_populated(rows) == AddField(rows, "totalarea")

\* The first step of assess_impact: the field `totalarea` is added and
\* populated with the area of each row's shape.
TotalArea(rows) ==
    [i \in DOMAIN rows |->
        [AddField(rows, "totalarea")[i] EXCEPT !["totalarea"] = ShapeArea(rows[i])]]

\* area_of_impacts on the rows of the flood table: `intersection` is the
\* dissolved intersection of the floods with the wetlands.
AreaOfImpacts(rows, intersection) ==
    populate_field(AddField(rows, "wetlands"), Aggregate(intersection, "sum"),
                   MISSING_AREA, "wetlands", "GeoID")

\* A faulty variant of count_of_impacts: the counts are only looked up when
\* the wetlands step has run before.
CountOfImpacts_after_wetlands(rows, intersection) ==
    populate_field(AddField(rows, "buildings"),
                   IF \A i \in DOMAIN rows : "wetlands" \in DOMAIN rows[i]
                   THEN Aggregate(intersection, "None") ELSE EmptyMap,
                   MISSING_COUNT, "buildings", "GeoID")

\* count_of_impacts on the rows of the flood table: `intersection` is the
\* intersection of the floods with the buildings.
CountOfImpacts(rows, intersection) ==
    populate_field(AddField(rows, "buildings"), Aggregate(intersection, "None"),
                   MISSING_COUNT, "buildings", "GeoID")

\* assess_impact(floods_path, flood_idcol, cleanup, wetlands_path,
\* wetlands_output, buildings_path, buildings_output): the flood table after
\* the call, the two outputs returned, the outputs deleted again and the
\* files the call has made that are on disk when it returns.
assess_impact(rows, wetlands_path, buildings_path, cleanup_arg) ==
    LET total == TotalArea(rows)
        wet   == IF wetlands_path # None
                 THEN AreaOfImpacts(total, wetlandsTable) ELSE total
        bldg  == IF buildings_path # None
                 THEN CountOfImpacts(wet, buildingsTable) ELSE wet
        made  == (IF wetlands_path # None
                  THEN {TempIntersection, WETLANDS_OUTPUT.val} ELSE {})
                 \cup (IF buildings_path # None THEN {BUILDINGS_OUTPUT.val} ELSE {})
        gone  == (IF wetlands_path # None /\ cleanup_arg THEN {WETLANDS_OUTPUT} ELSE {})
                 \cup (IF buildings_path # None /\ cleanup_arg THEN {BUILDINGS_OUTPUT} ELSE {})
    IN  [floods            |-> bldg,
         flooded_wetlands  |-> IF wetlands_path # None THEN WETLANDS_OUTPUT ELSE None,
         flooded_buildings |-> IF buildings_path # None THEN BUILDINGS_OUTPUT ELSE None,
         deleted           |-> gone,
         on_disk           |-> made \ {f.val : f \in gone}]

IdleAssess == aCleanup = "idle" /\ assessed = EmptyMap

InitAssess == aCleanup \in BOOLEAN /\ assessed = EmptyMap

\* One call of assess_impact on a copy of the flood layer, with or without
\* each of the two asset layers.
AssessImpactCall ==
    /\ aCleanup \in BOOLEAN
    /\ \E wetlands_path \in {None, WETLANDS_PATH},
          buildings_path \in {None, BUILDINGS_PATH} :
          LET given == <<wetlands_path # None, buildings_path # None>>
          IN  /\ given \notin DOMAIN assessed
              /\ assessed' = (given :> assess_impact(floods, wetlands_path,
                                                     buildings_path, aCleanup))
                             @@ assessed
    /\ UNCHANGED <<aCleanup, impactVars>>
    /\ AssessFrame

(***************************************************************************)
(* analysis.assess_impact, called again on the same flood table            *)
(***************************************************************************)
\* Calls made on one flood table.
MaxAssessCalls == 2

IdleInPlace == assessCalls = -1 /\ lastAssess = None

InitInPlace == assessCalls = 0 /\ lastAssess = None

\* assess_impact(floods_path, ...): the flood table is changed in place, so
\* a later call finds the fields an earlier call has added.
AssessImpactInPlace ==
    /\ assessCalls >= 0 /\ assessCalls < MaxAssessCalls
    /\ \E wetlands_path \in {None, WETLANDS_PATH},
          buildings_path \in {None, BUILDINGS_PATH},
          cleanup_arg \in BOOLEAN :
          LET r == assess_impact(floods, wetlands_path, buildings_path, cleanup_arg)
          IN  /\ floods' = r.floods
              /\ floodFields' = floodFields \cup {"totalarea"}
                     \cup (IF wetlands_path # None THEN {"wetlands"} ELSE {})
                     \cup (IF buildings_path # None THEN {"buildings"} ELSE {})
              /\ wetlandAreas' = IF wetlands_path # None
                                 THEN Aggregate(wetlandsTable, "sum") ELSE wetlandAreas
              /\ buildingCounts' = IF buildings_path # None
                                   THEN Aggregate(buildingsTable, "None")
                                   ELSE buildingCounts
              /\ impactDone' = impactDone
                     \cup (IF wetlands_path # None THEN {"wetlands"} ELSE {})
                     \cup (IF buildings_path # None THEN {"buildings"} ELSE {})
              /\ lastAssess' = [wetlands_path     |-> wetlands_path,
                                buildings_path    |-> buildings_path,
                                cleanup           |-> cleanup_arg,
                                had_totalarea     |-> "totalarea" \in floodFields,
                                flooded_wetlands  |-> r.flooded_wetlands,
                                flooded_buildings |-> r.flooded_buildings]
    /\ assessCalls' = assessCalls + 1
    /\ UNCHANGED <<wetlandsTable, buildingsTable>>
    /\ InPlaceFrame

(***************************************************************************)
(* analysis.flood_area                                                     *)
(***************************************************************************)
\* METERS_PER_FOOT = 0.3048, as a number of ten-thousandths.
METERS_PER_FOOT == 3048

\* Flood elevations in feet whose value in meters is a whole number (1250 ft
\* are 381 m), so that the product is exact in integers; DEM cells in meters
\* at, just above and far above these thresholds, and one (1250 m) that lies
\* above the threshold in meters but not above the number of feet.
FeetValues == {1250, 2500}
DemValues  == {NaN, PosInf, Fin(NODATA), Fin(381), Fin(382), Fin(1250)}

\* A faulty variant of the conversion: the feet are used as they are.
FeetToMeters_unconverted(feet) == Fin(feet)

\* elevation_meters = elevation_feet * METERS_PER_FOOT
FeetToMeters(feet) == Fin((feet * METERS_PER_FOOT) \div 10000)

\* The intermediate datasets of flood_area: the polygons of the flooded
\* raster and the three rasters.
FloodAreaTemps ==
    {"_temp_filename", "_temp_floods_raster", "_temp_clipped2zones",
     "_temp_pgon_as_rstr"}

IdleFloodArea == elevation_feet = 0 /\ floodAreaFiles = {}

\* The DEM and the zones as rasters_to_arrays hands them to flood_zones.
InitFloodArea ==
    /\ zones_array \in [1..GridCells -> ZoneValues]
    /\ topo_array \in [1..GridCells -> DemValues]
    /\ topo_input = topo_array
    /\ elevation = Fin(0)
    /\ flooded_array = <<>>
    /\ pcFlood = "ready"
    /\ elevation_feet \in FeetValues
    /\ floodAreaFiles = {}

\* flood_area(dem, zones, ID_column, elevation_feet, filename, cleanup): the
\* elevation is converted, the zones are masked with it, the flooded raster
\* is turned into dissolved polygons and the intermediate files are removed
\* when cleanup is true.
FloodArea ==
    /\ pcFlood = "ready" /\ elevation_feet \in FeetValues
    /\ elevation' = FeetToMeters(elevation_feet)
    /\ topo_array' = RewriteInvalid(topo_array)
    /\ flooded_array' = flood_zones(zones_array, topo_array, elevation')
    /\ \E cleanup_arg \in BOOLEAN :
          floodAreaFiles' = {"filename"}
              \cup (IF cleanup_arg THEN {} ELSE FloodAreaTemps)
    /\ pcFlood' = "done"
    /\ UNCHANGED <<zones_array, topo_input, elevation_feet>>
    /\ FloodAreaFrame

(***************************************************************************)
(* toolbox.StandardScenarios.analyze, called on its own                    *)
(***************************************************************************)
\* The keys of SURGES.
SurgeNames == {SURGES[i].surge_name : i \in DOMAIN SURGES}

\* Sample arguments: a surge that is a key of SURGES and one that is not.
AnalyzeSurges == {None, PyStrOf("MHHW"), PyStrOf("500yr")}
AnalyzeRises  == {None, PyIntOf(0), PyIntOf(4)}
AnalyzeElevs  == {None, PyFloatOf(78)}

\* The exception _prep_flooder_input raises ("" when it returns):
\* SURGES[surge] is a KeyError for a surge that is no key, slr + ... a
\* TypeError for a missing slr, and a missing flood_output a ValueError.
prep_flooder_error(elev, surge, slr, output) ==
    IF elev = None /\ (surge = None \/ surge.val \notin SurgeNames)
    THEN "KeyError"
    ELSE IF elev = None /\ slr = None THEN "TypeError"
    ELSE IF output = None THEN "ValueError"
    ELSE ""

\* A faulty variant of AfterPrep: the error is swallowed and analyze goes on.
AfterPrep_swallowed(error) == "prepared"

\* Where analyze is after _prep_flooder_input: nothing catches its error.
AfterPrep(error) == IF error = "" THEN "prepared" ELSE "raised"

IdleAnalyze ==
    /\ anArgs = None /\ anpc = "idle" /\ anElev = None /\ anError = ""
    /\ floodCalls = 0 /\ anFiles = {}

InitAnalyze ==
    /\ \E elev \in AnalyzeElevs, surge \in AnalyzeSurges, slr \in AnalyzeRises,
          n \in 0..1, output \in {None, PyStrOf("flood_output")},
          wetlands \in BOOLEAN, buildings \in BOOLEAN :
          anArgs = [elev |-> elev, surge |-> surge, slr |-> slr, num |-> n,
                    flood_output |-> output, wetlands |-> wetlands,
                    buildings |-> buildings]
    /\ anpc = "call" /\ anElev = None /\ anError = ""
    /\ floodCalls = 0 /\ anFiles = {}

\* analyze: self._prep_flooder_input(flood_output=..., elev=..., surge=...,
\* slr=..., num=...) returns the elevation or raises.
AnalyzePrep ==
    LET error == prep_flooder_error(anArgs.elev, anArgs.surge, anArgs.slr,
                                    anArgs.flood_output)
    IN  /\ anpc = "call"
        /\ anElev' = IF error = ""
                     THEN _prep_flooder_input(anArgs.elev, anArgs.surge, anArgs.slr)
                     ELSE None
        /\ anError' = IF AfterPrep(error) = "raised" THEN error ELSE ""
        /\ anpc' = AfterPrep(error)
        /\ UNCHANGED <<anArgs, floodCalls, anFiles>>
        /\ AnalyzeFrame

\* analyze: tidegates.flood_area(...) writes the flood layer of the scenario
\* and _add_scenario_columns tags it.
AnalyzeFloodArea ==
    /\ anpc = "prepared"
    /\ floodCalls' = floodCalls + 1
    /\ anFiles' = anFiles \cup {floods_path(anArgs.num)}
    /\ anpc' = "flooded"
    /\ UNCHANGED <<anArgs, anElev, anError>>
    /\ AnalyzeFrame

\* analyze: tidegates.assess_impact(...) writes a layer for each asset layer
\* that is supplied; analyze returns the three layers.
AnalyzeImpact ==
    /\ anpc = "flooded"
    /\ anFiles' = anFiles
           \cup (IF anArgs.wetlands THEN {wl_path(anArgs.num)} ELSE {})
           \cup (IF anArgs.buildings THEN {bldg_path(anArgs.num)} ELSE {})
    /\ anpc' = "returned"
    /\ UNCHANGED <<anArgs, anElev, anError, floodCalls>>
    /\ AnalyzeFrame

(***************************************************************************)
(* Specifications                                                          *)
(***************************************************************************)
\* flood_zones on every pair of sample grids, called again on the same arrays
\* as main_execute does for every scenario of a batch.
NextFlood == FloodZones \/ FloodAgain
StartFlood == InitFlood /\ IdleAgg /\ IdleImpact /\ IdleField /\ IdleScope
    /\ IdleExt
    /\ IdleScen
    /\ IdleBatch
    /\ IdleAssess
    /\ IdleInPlace
    /\ IdleFloodArea
    /\ IdleAnalyze
SpecFlood == StartFlood /\ [][NextFlood]_vars

\* groupby_and_aggregate on every sample table and choice of arguments.
NextAgg == GroupbyAndAggregate
StartAgg == IdleFlood /\ InitAgg /\ IdleImpact /\ IdleField /\ IdleScope
    /\ IdleExt
    /\ IdleScen
    /\ IdleBatch
    /\ IdleAssess
    /\ IdleInPlace
    /\ IdleFloodArea
    /\ IdleAnalyze
SpecAgg == StartAgg /\ [][NextAgg]_vars

\* The two impact steps of assess_impact on a flood table.
NextImpact == area_of_impacts \/ count_of_impacts
StartImpact == IdleFlood /\ IdleAgg /\ InitImpact /\ IdleField /\ IdleScope
    /\ IdleExt
    /\ IdleScen
    /\ IdleBatch
    /\ IdleAssess
    /\ IdleInPlace
    /\ IdleFloodArea
    /\ IdleAnalyze
SpecImpact == StartImpact /\ [][NextImpact]_vars

\* Calls of add_field_with_value on one table.
NextField == AddFieldWithValue
StartField == IdleFlood /\ IdleAgg /\ IdleImpact /\ InitField /\ IdleScope
    /\ IdleExt
    /\ IdleScen
    /\ IdleBatch
    /\ IdleAssess
    /\ IdleInPlace
    /\ IdleFloodArea
    /\ IdleAnalyze
SpecField == StartField /\ [][NextField]_vars

\* Scopes opened by with-statements that construct their object, the only
\* way the repository uses them.
NextScope ==
    WithStatement \/ ExitNormally \/ RaiseInBlock \/ ExitByException \/ Caught
StartScope == IdleFlood /\ IdleAgg /\ IdleImpact /\ IdleField /\ InitScope
    /\ IdleExt
    /\ IdleScen
    /\ IdleBatch
    /\ IdleAssess
    /\ IdleInPlace
    /\ IdleFloodArea
    /\ IdleAnalyze
SpecScope == StartScope /\ [][NextScope]_vars

\* The same, with scope objects that are constructed ahead of their use.
NextScopeObjects == NextScope \/ Construct \/ WithObject
SpecScopeObjects == StartScope /\ [][NextScopeObjects]_vars

(***************************************************************************)
(* Properties of utils.flood_zones (SpecFlood)                             *)
(***************************************************************************)
Cells == DOMAIN zones_array

\* C1: on every pair of grids and every threshold the returned grid is 0 in
\* every cell whose zone value is <= 0, 0 in every cell whose elevation is
\* strictly greater than the threshold, and the zone value in every cell whose
\* zone value is > 0 and whose elevation is <= the threshold (so a cell at the
\* threshold keeps its zone id). Elevations are those handed to the call.
C1_MaskingOnEveryGrid ==
    pcFlood = "done" =>
        \A i \in Cells :
            /\ zones_array[i] <= 0 => flooded_array[i] = 0
            /\ FloatGT(topo_input[i], elevation) => flooded_array[i] = 0
            /\ zones_array[i] > 0 /\ FloatLE(topo_input[i], elevation)
                  => flooded_array[i] = zones_array[i]

\* C2: a cell whose elevation is NaN or the no-data value -999 is 0 in the
\* returned grid, whatever the threshold and the zone id of the cell.
C2_NoDataExcluded ==
    pcFlood = "done" =>
        \A i \in Cells :
            topo_input[i] \in {NaN, Fin(NODATA)} => flooded_array[i] = 0

(***************************************************************************)
(* Properties of utils.groupby_and_aggregate (SpecAgg)                     *)
(***************************************************************************)
\* The rows of the layer whose group field has the value k.
RowsOfGroup(k) == {i \in DOMAIN layer : FieldValue(layer[i], groupfield) = k}

RECURSIVE SumOverRows(_)
SumOverRows(S) ==
    IF S = {} THEN 0
    ELSE LET i == CHOOSE j \in S : TRUE
         IN  FieldValue(layer[i], valuefield) + SumOverRows(S \ {i})

\* C3: without an aggregation function the keys of the mapping are exactly
\* the distinct values of the group field, and the value of a key is the
\* number of distinct value-field values among the rows of that group.
C3_DistinctCountPerGroup ==
    pcAgg = "returned" /\ aggfxn = "None" =>
        /\ DOMAIN counts = {FieldValue(layer[i], groupfield) : i \in DOMAIN layer}
        /\ \A k \in DOMAIN counts :
              counts[k] = Cardinality({FieldValue(layer[i], valuefield) :
                                          i \in RowsOfGroup(k)})

\* A building id that occurs in two rows of one zone has been counted once.
C3_Witness ==
    /\ pcAgg = "returned" /\ aggfxn = "None"
    /\ groupfield = "GeoID" /\ valuefield = "STRUCT_ID"
    /\ \E i, j \in DOMAIN layer :
          /\ i # j
          /\ layer[i].GeoID = layer[j].GeoID
          /\ layer[i].STRUCT_ID = layer[j].STRUCT_ID
          /\ counts[layer[i].GeoID] = 1

\* C4: with the sum reducer the value of a zone id is the sum of the value
\* field over every row of that zone (equal values are each added) and over
\* no row of another zone.
C4_SumPerGroup ==
    pcAgg = "returned" /\ aggfxn = "sum" =>
        /\ DOMAIN counts = {FieldValue(layer[i], groupfield) : i \in DOMAIN layer}
        /\ \A k \in DOMAIN counts : counts[k] = SumOverRows(RowsOfGroup(k))

\* Two rows of one zone with the same area have both been added, and another
\* zone has its own sum.
C4_Witness ==
    /\ pcAgg = "returned" /\ aggfxn = "sum"
    /\ groupfield = "GeoID" /\ valuefield = "SHAPE@AREA"
    /\ \E i, j, k \in DOMAIN layer :
          /\ i # j
          /\ layer[i].GeoID = layer[j].GeoID
          /\ layer[i].AREA = layer[j].AREA /\ layer[i].AREA > 0
          /\ layer[k].GeoID # layer[i].GeoID
          /\ counts[layer[i].GeoID] = 2 * layer[i].AREA
          /\ counts[layer[k].GeoID] = layer[k].AREA

\* The layer with its rows in the order p (a permutation of the row numbers).
Permuted(p) == [i \in DOMAIN layer |-> layer[p[i]]]

\* C5: for every permutation of the rows of the table the same mapping is
\* returned, with the default reducer and with the sum reducer.
C5_RowOrderIrrelevant ==
    pcAgg = "returned" =>
        \A p \in Permutations(DOMAIN layer) :
            Aggregate(TableToNumPyArray(Permuted(p), groupfield, valuefield), aggfxn)
                = counts

\* A table whose rows of one group are not contiguous has been aggregated.
C5_Witness ==
    /\ pcAgg = "returned"
    /\ Len(layer) >= 3
    /\ FieldValue(layer[1], groupfield) = FieldValue(layer[3], groupfield)
    /\ FieldValue(layer[1], groupfield) # FieldValue(layer[2], groupfield)
    /\ FieldValue(layer[1], valuefield) # FieldValue(layer[3], valuefield)

\* The outcome "a ValueError and nothing else": no row was read and no
\* mapping, not even a partial one, was built.
FailedBeforeReading == pcAgg = "ValueError" /\ rowsRead = 0 /\ counts = EmptyMap

\* C6 as stated: the call fails with a ValueError, before any row is read,
\* whenever the group field or the value field is not a field of the table.
C6_AnyUnlistedFieldFails ==
    pcAgg # "ready" /\ (groupfield \notin existing_fields \/ valuefield \notin existing_fields)
        => FailedBeforeReading

\* C6 as amended: the call fails with a ValueError, before any row is read,
\* whenever the group field or the value field is neither a field of the
\* table nor the geometry token SHAPE@AREA, which the check lets through.
C6_MissingFieldFails ==
    pcAgg # "ready"
      /\ (\E n \in {groupfield, valuefield} : n \notin existing_fields /\ n # "SHAPE@AREA")
        => FailedBeforeReading

\* A call on a table with rows, with a good group field and a value field
\* the table does not have, has failed.
C6_Witness ==
    /\ pcAgg = "ValueError"
    /\ groupfield = "GeoID" /\ valuefield = "JUNK"
    /\ Len(layer) > 0 /\ rowsRead = 0

(***************************************************************************)
(* Properties of the impact attributes (SpecImpact)                        *)
(***************************************************************************)
\* C7: after the impact steps every row of the flood table has its impact
\* attributes: the area of the wetland aggregation for a zone that is a key
\* of it (0 when that area is 0) and -999 for a zone that is not; the count
\* of the building aggregation for a zone that is a key of it and -1 for a
\* zone that is not.
C7_ImpactSentinels ==
    /\ "wetlands" \in impactDone =>
          /\ "wetlands" \in floodFields
          /\ DOMAIN wetlandAreas = {wetlandsTable[i][1] : i \in DOMAIN wetlandsTable}
          /\ \A i \in DOMAIN floods :
                /\ "wetlands" \in DOMAIN floods[i]
                /\ floods[i].GeoID \in DOMAIN wetlandAreas
                      => floods[i].wetlands = wetlandAreas[floods[i].GeoID]
                /\ floods[i].GeoID \notin DOMAIN wetlandAreas
                      => floods[i].wetlands = MISSING_AREA
    /\ "buildings" \in impactDone =>
          /\ "buildings" \in floodFields
          /\ DOMAIN buildingCounts = {buildingsTable[i][1] : i \in DOMAIN buildingsTable}
          /\ \A i \in DOMAIN floods :
                /\ "buildings" \in DOMAIN floods[i]
                /\ floods[i].GeoID \in DOMAIN buildingCounts
                      => floods[i].buildings = buildingCounts[floods[i].GeoID]
                /\ floods[i].GeoID \notin DOMAIN buildingCounts
                      => floods[i].buildings = MISSING_COUNT

\* Both steps have run on a table with a zone of zero wetland area, a zone
\* with no wetland record, a zone with buildings and a zone with no building
\* record.
C7_Witness ==
    /\ impactDone = {"wetlands", "buildings"}
    /\ \E i, j \in DOMAIN floods :
          /\ floods[i].GeoID \in DOMAIN wetlandAreas /\ floods[i].wetlands = 0
          /\ floods[j].GeoID \notin DOMAIN wetlandAreas /\ floods[j].wetlands = MISSING_AREA
    /\ \E i, j \in DOMAIN floods :
          /\ floods[i].buildings >= 1
          /\ floods[j].buildings = MISSING_COUNT

(***************************************************************************)
(* Properties of utils.add_field_with_value (SpecField)                    *)
(***************************************************************************)
Called == lastCall.outcome \in {"ok", "ValueError", "RuntimeError"}

\* The arguments of the latest call agree with each other: a field type is
\* given or follows from the value, and a field of that type can hold the value.
WellFormedCall ==
    /\ lastCall.field_type # "None"
    /\ lastCall.field_value = PyNone \/ Storable(lastCall.field_value, lastCall.field_type)

\* C8: a call on a field name the table already has raises a ValueError and
\* leaves the table unchanged when overwrite is False; when overwrite is True
\* (and the arguments agree with each other) it succeeds, and afterwards the
\* type of the field is the type of this call and, when a value is given,
\* every row holds that value.
C8_OverwriteContract ==
    Called /\ lastCall.existed =>
        IF ~lastCall.overwrite
        THEN /\ lastCall.outcome = "ValueError"
             /\ tblFields = lastCall.fieldsBefore
             /\ tblValues = lastCall.valuesBefore
        ELSE WellFormedCall =>
             /\ lastCall.outcome = "ok"
             /\ tblFields[lastCall.field_name] = lastCall.field_type
             /\ lastCall.field_value # PyNone =>
                   \A i \in 1..TableRows :
                       tblValues[lastCall.field_name][i]
                           = Coerce(lastCall.field_value, lastCall.field_type)

(***************************************************************************)
(* Properties of utils.WorkSpace and utils.OverwriteState (SpecScope)      *)
(***************************************************************************)
\* The scopes of one kind that are open, by their place on the stack.
OpenScopes(kind) == {i \in DOMAIN stack : stack[i].kind = kind}

Innermost(kind) == stack[CHOOSE i \in OpenScopes(kind) : \A j \in OpenScopes(kind) : j <= i]

Baseline(kind) == IF kind = "WorkSpace" THEN baseline[1] ELSE baseline[2]

\* C9: entering a WorkSpace scope sets the workspace path to the path given,
\* and leaving it, normally or through an exception raised in the block,
\* restores the path that was current before the scope was entered.
C9_WorkSpaceRestored ==
    /\ stack # <<>> /\ stack[Len(stack)].kind = "WorkSpace"
          => workspace = stack[Len(stack)].new
    /\ lastExit.valid /\ lastExit.kind = "WorkSpace"
          => lastExit.restored = lastExit.prior /\ workspace = lastExit.prior

\* A WorkSpace scope that had changed the path has been left through an
\* exception and the earlier path is back.
C9_Witness ==
    /\ lastExit.valid /\ lastExit.kind = "WorkSpace" /\ lastExit.byException
    /\ lastExit.new # lastExit.prior
    /\ workspace = lastExit.prior

\* C10: scopes nest as a stack. While a scope of a kind is open the global
\* has the value of the innermost open scope of that kind, so leaving an
\* inner scope gives back the value of the enclosing one; when no scope of
\* the kind is open the global has the value from before any scope.
C10_StackDiscipline ==
    \A kind \in {"WorkSpace", "OverwriteState"} :
        Global(kind) = IF OpenScopes(kind) # {}
                       THEN Innermost(kind).new
                       ELSE Baseline(kind)

\* An inner OverwriteState scope has just been left inside an outer one that
\* set another flag than the inner one and than the flag from before any scope.
C10_Witness ==
    /\ lastExit.valid /\ lastExit.kind = "OverwriteState"
    /\ OpenScopes("OverwriteState") # {}
    /\ Innermost("OverwriteState").new # lastExit.new
    /\ Innermost("OverwriteState").new # Baseline("OverwriteState")
    /\ overwriteOutput = Innermost("OverwriteState").new

(***************************************************************************)
(* utils.Extension (SpecExt)                                               *)
(***************************************************************************)
\* Extension blocks, nested and left normally or by an exception.
NextExt ==
    \/ ExtensionEnter \/ ExtensionUnavailable \/ ExtensionExitNormally
    \/ ExtensionRaiseInBlock \/ ExtensionExitByException \/ ExtensionCaught
StartExt ==
    IdleFlood /\ IdleAgg /\ IdleImpact /\ IdleField /\ IdleScope /\ InitExt
    /\ IdleScen
    /\ IdleBatch
    /\ IdleAssess
    /\ IdleInPlace
    /\ IdleFloodArea
    /\ IdleAnalyze
SpecExt == StartExt /\ [][NextExt]_vars

\* The names of the Extension blocks that are open.
OpenExtensions == {extStack[i] : i \in DOMAIN extStack}

\* C11: inside an Extension block the named extension is checked out, and
\* once the block has been left, normally or by an exception, the extension
\* has been checked back in: with no block for it open any more, the process
\* does not hold it.
C11_ExtensionCheckedIn ==
    /\ \A name \in OpenExtensions : name \in extHeld
    /\ (extLast.valid /\ extLast.name \notin OpenExtensions)
           => extLast.name \notin extHeld

(***************************************************************************)
(* Scenario enumeration (SpecScen)                                         *)
(***************************************************************************)
\* make_scenarios on every sample 'elevation' parameter, then the flood
\* elevation of each scenario in turn.
NextScen == MakeScenarios \/ PrepFlooderInput
StartScen ==
    IdleFlood /\ IdleAgg /\ IdleImpact /\ IdleField /\ IdleScope /\ IdleExt
    /\ InitScen
    /\ IdleBatch
    /\ IdleAssess
    /\ IdleInPlace
    /\ IdleFloodArea
    /\ IdleAnalyze
SpecScen == StartScen /\ [][NextScen]_vars

\* The fixed table of surge categories, in tenths of a foot.
SurgeTable ==
    {<<"MHHW", 40>>, <<"10yr", 80>>, <<"50yr", 96>>, <<"100yr", 105>>}

\* C12: with no custom elevation, the enumeration over the 4 surge categories
\* (MHHW 4.0, 10yr 8.0, 50yr 9.6, 100yr 10.5) and the sea level rises 0..6
\* gives exactly 28 scenarios, no two with the same (surge, slr) pair, each
\* with elev unset, and the flood elevation computed for each is its surge
\* offset plus its slr.
C12_StandardScenarios ==
    (pcScen = "made" /\ elevationParam.kind = "None") =>
        /\ Len(scenario_list) = 28
        /\ \A i, j \in DOMAIN scenario_list :
               (scenario_list[i].surge_name = scenario_list[j].surge_name
                /\ scenario_list[i].slr = scenario_list[j].slr) => i = j
        /\ \A i \in DOMAIN scenario_list :
               /\ scenario_list[i].surge_name.type = "str"
               /\ scenario_list[i].surge_elev.type = "float"
               /\ scenario_list[i].slr.type = "int"
        /\ {<<scenario_list[i].surge_name.val, scenario_list[i].surge_elev.tenths,
              scenario_list[i].slr.val>> : i \in DOMAIN scenario_list}
               = {<<s[1], s[2], slr>> : s \in SurgeTable, slr \in 0..6}
        /\ \A i \in DOMAIN scenario_list : scenario_list[i].elev = None
        /\ \A i \in DOMAIN prepElevations :
               /\ prepElevations[i].type = "float"
               /\ prepElevations[i].tenths =
                      scenario_list[i].surge_elev.tenths
                          + 10 * scenario_list[i].slr.val

\* All 28 standard scenarios have had their flood elevation computed.
C12_Witness ==
    /\ pcScen = "made"
    /\ elevationParam.kind = "None"
    /\ Len(prepElevations) = 28
    /\ prepElevations[28].tenths = 165

\* The elevations supplied, as a list.
SuppliedElevations ==
    IF elevationParam.kind = "scalar" THEN <<elevationParam.value>>
    ELSE elevationParam.items

\* The number a supplied elevation stands for, in tenths of a foot.
TenthsOf(x) ==
    IF x.type # "str" THEN x.tenths
    ELSE IF x.text = "7.8" THEN 78 ELSE 5

\* C13: with custom elevations, make_scenarios returns exactly one scenario
\* per supplied elevation, in the order supplied (one scenario for a single
\* scalar), each with elev equal to the elevation as a float and with
\* surge_name, surge_elev and slr unset; no standard scenario is produced.
C13_CustomScenarios ==
    (pcScen = "made" /\ elevationParam.kind \in {"scalar", "list"}) =>
        /\ Len(scenario_list) = Len(SuppliedElevations)
        /\ elevationParam.kind = "scalar" => Len(scenario_list) = 1
        /\ \A i \in DOMAIN scenario_list :
               /\ scenario_list[i].elev =
                      [type |-> "float", tenths |-> TenthsOf(SuppliedElevations[i])]
               /\ scenario_list[i].surge_name = None
               /\ scenario_list[i].surge_elev = None
               /\ scenario_list[i].slr = None

\* Two different elevations were supplied as text, the larger first.
C13_Witness ==
    /\ pcScen = "made"
    /\ elevationParam.kind = "list"
    /\ Len(scenario_list) = 2
    /\ SuppliedElevations[1].type = "str"
    /\ scenario_list[1].elev.tenths > scenario_list[2].elev.tenths

(***************************************************************************)
(* A batch run (SpecBatch)                                                 *)
(***************************************************************************)
\* main_execute from its start to its return, or to the step that fails.
NextBatch ==
    \/ Rasterize \/ Mask \/ Vectorize \/ Dissolve \/ TagFloods \/ AssessImpact
    \/ FinishScenario \/ FinishFloods \/ FinishWetlands \/ FinishBuildings
    \/ Return \/ Fail
StartBatch ==
    IdleFlood /\ IdleAgg /\ IdleImpact /\ IdleField /\ IdleScope /\ IdleExt
    /\ IdleScen /\ InitBatch
    /\ IdleAssess
    /\ IdleInPlace
    /\ IdleFloodArea
    /\ IdleAnalyze
SpecBatch == StartBatch /\ [][NextBatch]_vars

\* The stages of the record that satisfy a condition, and the number of
\* scenarios the parameters of the run ask for.
StagesNamed(names) == {i \in DOMAIN trace : trace[i].stage \in names}
ScenarioCount ==
    IF bParams.elevation.kind = "None" THEN 28 ELSE Len(bParams.elevation.items)

\* C14: in one batch run the zone/DEM rasterization is executed exactly once,
\* before the first scenario is masked, and every scenario of the batch is
\* masked against the zone array, elevation array and template of that one
\* rasterization, however many scenarios there are.
C14_RasterizedOnce ==
    /\ rasterCalls <= 1
    /\ Cardinality(StagesNamed({"Rasterized"})) = rasterCalls
    /\ \A i \in StagesNamed({"Masked"}) :
           /\ \E j \in StagesNamed({"Rasterized"}) : j < i
           /\ trace[i].arrays = arrays
           /\ \A k \in StagesNamed({"Masked"}) : trace[k].arrays = trace[i].arrays
    /\ bpc = "done" =>
           /\ rasterCalls = 1
           /\ Cardinality(StagesNamed({"Masked"})) = ScenarioCount

\* A run of all 28 standard scenarios is done.
C14_Witness ==
    /\ bpc = "done"
    /\ Cardinality(StagesNamed({"Masked"})) = 28

\* The stages of the run as pairs <<stage, scenario>>, without the tagging
\* step and the failure that ended the run.
ObservedStages ==
    LET kept == SelectSeq(trace, LAMBDA e : e.stage \notin {"Tagged", "Failed"})
    IN  [i \in DOMAIN kept |-> <<kept[i].stage, kept[i].num>>]

\* The stages of a complete run: Rasterized, the four stages of each scenario
\* in turn, then the flood output merged, then each asset output that was
\* asked for merged and joined to its baseline, then Done.
ExpectedStages ==
    LET n == ScenarioCount
        names == <<"Masked", "Vectorized", "Dissolved", "ImpactAssessed">>
        perScenario == [p \in 1..(4 * n) |->
                           <<names[((p - 1) % 4) + 1], (p - 1) \div 4>>]
        asset == <<<<"Merged", n>>, <<"JoinedToBaseline", n>>>>
    IN  <<<<"Rasterized", 0>>>> \o perScenario \o <<<<"Merged", n>>>>
            \o (IF bParams.wetlands THEN asset ELSE <<>>)
            \o (IF bParams.buildings THEN asset ELSE <<>>)
            \o <<<<"Done", n>>>>

\* C15 as amended: the stages come in the order Rasterized, then for each
\* scenario Masked, Vectorized, Dissolved, ImpactAssessed (a scenario runs to
\* completion before the next begins, two scenarios never interleave), then,
\* only after the last scenario has been impact-assessed, the flood output
\* is Merged and each supplied asset output in turn is Merged and then
\* JoinedToBaseline, then Done.
C15_PipelineOrder ==
    /\ Len(ObservedStages) <= Len(ExpectedStages)
    /\ \A i \in DOMAIN ObservedStages : ObservedStages[i] = ExpectedStages[i]
    /\ bpc = "done" => Len(ObservedStages) = Len(ExpectedStages)

\* C15: a batch run passes through its stages in the order Init, Rasterized,
\* then for each scenario Masked, Vectorized, Dissolved, ImpactAssessed, then
\* Merged, then (optionally) JoinedToBaseline, then Done: scenarios run to
\* completion one after the other, the merge starts only after the last
\* scenario, and no Merged stage comes after a JoinedToBaseline stage.
C15_StagesInOrder ==
    /\ C15_PipelineOrder
    /\ \A i, j \in DOMAIN trace :
           (i < j /\ trace[i].stage = "JoinedToBaseline")
               => trace[j].stage # "Merged"

\* A run of two scenarios with both asset layers is done.
C15_Witness ==
    /\ bpc = "done"
    /\ ScenarioCount = 2
    /\ bParams.wetlands /\ bParams.buildings
    /\ Cardinality(StagesNamed({"JoinedToBaseline"})) = 2

\* The merged outputs that exist.
MergedOutputs == {flood_output, wetland_output, building_output} \cap DOMAIN bfiles

\* C16: when a step of a scenario fails, the error leaves main_execute
\* uncaught and the batch is aborted: the step is not retried, no later
\* scenario is started (the failure is the last thing in the record of the
\* run), and no merged output is produced from the scenarios that had
\* completed.
C16_FailureAborts ==
    \A i \in StagesNamed({"Failed"}) :
        /\ i = Len(trace)
        /\ bpc = "aborted"
        /\ bexc
        /\ (scenarios = <<>> \/ trace[i].num < Len(scenarios)) =>
               /\ MergedOutputs = {}
               /\ StagesNamed({"Merged", "JoinedToBaseline", "Done"}) = {}

\* The second scenario failed after the first one had completed.
C16_Witness ==
    /\ bpc = "aborted"
    /\ trace[Len(trace)].stage = "Failed"
    /\ trace[Len(trace)].num = 1
    /\ Len(contributed.floods) = 1
    /\ StagesNamed({"Masked"}) # {}

\* The rows of several layers, one layer after the other.
RECURSIVE AllRows(_)
AllRows(layers) ==
    IF layers = <<>> THEN <<>> ELSE Head(layers) \o AllRows(Tail(layers))

\* The rows of a sequence as a set, and the number of rows of several layers.
RowSet(rows) == {rows[i] : i \in DOMAIN rows}
RECURSIVE RowCount(_)
RowCount(layers) ==
    IF layers = <<>> THEN 0 ELSE Len(Head(layers)) + RowCount(Tail(layers))

\* The flood output is the plain concatenation of the per-scenario layers.
FloodsConcatenated ==
    /\ flood_output \in DOMAIN bfiles
    /\ Len(bfiles[flood_output]) = RowCount(contributed.floods)
    /\ bfiles[flood_output] = AllRows(contributed.floods)

\* An asset output is there exactly when its layer was supplied.
AssetOutputsWhenSupplied ==
    /\ (wetland_output \in DOMAIN bfiles) <=> bParams.wetlands
    /\ (building_output \in DOMAIN bfiles) <=> bParams.buildings

\* An asset output is the plain concatenation of the per-scenario layers.
AssetConcatenated(output, layers) ==
    /\ Len(bfiles[output]) = RowCount(layers)
    /\ \A i \in DOMAIN bfiles[output] :
           [bfiles[output][i] EXCEPT !.target = ""] = AllRows(layers)[i]

\* An asset output holds one row for every pair of a row of the
\* concatenated per-scenario layers and a feature of the source layer that
\* the row meets, and no other row.
AssetJoined(output, layers) ==
    LET pairs == {[r EXCEPT !.target = f] :
                      <<r, f>> \in {<<r, f>> \in RowSet(AllRows(layers))
                                        \X {"w1", "w2", "b1"} : f \in r.sources}}
    IN  /\ RowSet(bfiles[output]) = pairs
        /\ Len(bfiles[output]) = Cardinality(pairs)

\* C17: after all scenarios the merged flood output is the plain
\* concatenation of the per-scenario flood layers (its row count is the sum
\* of theirs, rows of different scenarios for one zone are neither combined
\* nor dropped), and the merged wetlands and buildings outputs are produced
\* in the same way, each independently and only when that layer was supplied.
C17_PlainConcatenation ==
    bpc = "done" =>
        /\ FloodsConcatenated
        /\ AssetOutputsWhenSupplied
        /\ bParams.wetlands => AssetConcatenated(wetland_output, contributed.wetlands)
        /\ bParams.buildings =>
               AssetConcatenated(building_output, contributed.buildings)

\* C17 as amended: the merged flood output is the plain concatenation of
\* the per-scenario flood layers; the wetlands and buildings outputs are
\* produced each independently and only when that layer was supplied, by
\* concatenating the per-scenario layers and spatially joining the
\* concatenation to the source layer, which gives one row for every source
\* feature a concatenated row meets.
C17_MergedOutputs ==
    bpc = "done" =>
        /\ FloodsConcatenated
        /\ AssetOutputsWhenSupplied
        /\ bParams.wetlands => AssetJoined(wetland_output, contributed.wetlands)
        /\ bParams.buildings => AssetJoined(building_output, contributed.buildings)

\* Two scenarios flooded the same two zones, only wetlands were supplied
\* and the flooded wetlands of a zone meet two wetland features.
C17_Witness ==
    /\ bpc = "done"
    /\ ScenarioCount = 2
    /\ bParams.wetlands /\ ~bParams.buildings
    /\ Len(bfiles[flood_output]) = 4
    /\ Len(bfiles[wetland_output]) > 4

\* The flood elevation, in tenths of a foot, and the surge and sea level
\* rise of the scenario a row comes from.
ScenarioOf(row) == scenarios[row.num + 1]
ElevationTenthsOf(row) ==
    IF bParams.elevation.kind = "None"
    THEN ScenarioOf(row).surge_elev.tenths + 10 * ScenarioOf(row).slr.val
    ELSE LET text == bParams.elevation.items[row.num + 1].text
         IN  IF text = "7.8" THEN 78 ELSE 5

\* A row carries the metadata of its scenario.
Tagged(row) ==
    /\ row.flood_elev = [type |-> "float", tenths |-> ElevationTenthsOf(row)]
    /\ IF bParams.elevation.kind = "None"
       THEN /\ row.surge = ScenarioOf(row).surge_name
            /\ row.slr = ScenarioOf(row).slr
       ELSE row.surge = None /\ row.slr = None

NextFinish == FinishResults
StartFinish ==
    IdleFlood /\ IdleAgg /\ IdleImpact /\ IdleField /\ IdleScope /\ IdleExt
    /\ IdleScen /\ InitFinish
    /\ IdleAssess
    /\ IdleInPlace
    /\ IdleFloodArea
    /\ IdleAnalyze
SpecFinish == StartFinish /\ [][NextFinish]_vars

\* The per-scenario files handed to finish_results.
ResultFiles == {bParams.results[i] : i \in DOMAIN bParams.results}

\* C19: after the merge every intermediate per-scenario file is deleted,
\* unless the caller asked to retain them (cleanup false), in which case
\* none is deleted; deletion is best-effort per file: when a deletion target
\* is already gone, the remaining targets are still deleted and the batch
\* is not aborted.
C19_BestEffortCleanup ==
    bpc \in {"returned", "raised"} =>
        /\ bParams.cleanup =>
               /\ ResultFiles \cap DOMAIN bfiles = {}
               /\ bParams.outputname = None => bpc = "returned"
        /\ ~bParams.cleanup =>
               ResultFiles \cap DOMAIN bfiles = bParams.present

(***************************************************************************)
(* analysis.assess_impact (SpecAssess)                                     *)
(***************************************************************************)
NextAssess == AssessImpactCall
StartAssess ==
    /\ IdleFlood /\ IdleAgg /\ InitImpact /\ IdleField /\ IdleScope
    /\ IdleExt /\ IdleScen /\ IdleBatch /\ InitAssess
    /\ IdleInPlace
    /\ IdleFloodArea
    /\ IdleAnalyze
SpecAssess == StartAssess /\ [][NextAssess]_vars

\* C20: a call of assess_impact without an asset layer returns None for that
\* layer and leaves its attribute out of the flood table, and the attribute
\* of a layer that is given is the same in every call that is given it.
C20_IndependentSteps ==
    /\ \A g \in DOMAIN assessed :
          /\ Len(assessed[g].floods) = Len(floods)
          /\ (assessed[g].flooded_wetlands = None) = ~g[1]
          /\ (assessed[g].flooded_buildings = None) = ~g[2]
          /\ \A i \in DOMAIN assessed[g].floods :
                /\ ("wetlands" \in DOMAIN assessed[g].floods[i]) = g[1]
                /\ ("buildings" \in DOMAIN assessed[g].floods[i]) = g[2]
    /\ \A g, h \in DOMAIN assessed : \A i \in DOMAIN floods :
          /\ g[1] /\ h[1] =>
                assessed[g].floods[i].wetlands = assessed[h].floods[i].wetlands
          /\ g[2] /\ h[2] =>
                assessed[g].floods[i].buildings = assessed[h].floods[i].buildings

\* The same flood layer has been assessed with both layers, with each one
\* alone and with none, and it has a zone with flooded wetlands and a zone
\* with flooded buildings.
C20_Witness ==
    /\ DOMAIN assessed = BOOLEAN \X BOOLEAN
    /\ \E i, j \in DOMAIN floods :
          /\ assessed[<<TRUE, FALSE>>].floods[i].wetlands > 0
          /\ assessed[<<FALSE, TRUE>>].floods[j].buildings >= 1

\* C22: a call with cleanup true leaves no intermediate intersection on disk
\* and leaves the outputs it returns on disk.
C22_CleanupKeepsOutputs ==
    \A g \in DOMAIN assessed :
        aCleanup = TRUE =>
            /\ TempIntersection \notin assessed[g].on_disk
            /\ g[1] => assessed[g].flooded_wetlands.val \in assessed[g].on_disk
            /\ g[2] => assessed[g].flooded_buildings.val \in assessed[g].on_disk

(***************************************************************************)
(* analysis.assess_impact in place (SpecInPlace)                           *)
(***************************************************************************)
NextInPlace == AssessImpactInPlace
StartInPlace ==
    /\ IdleFlood /\ IdleAgg /\ InitImpact /\ IdleField /\ IdleScope
    /\ IdleExt /\ IdleScen /\ IdleBatch /\ IdleAssess /\ InitInPlace
    /\ IdleFloodArea
    /\ IdleAnalyze
SpecInPlace == StartInPlace /\ [][NextInPlace]_vars

\* C21: after every call of assess_impact every row of the flood table has
\* the attribute totalarea, equal to the area of the row's shape, whichever
\* asset layers were given and whether or not the field was there before.
C21_TotalAreaWritten ==
    assessCalls >= 1 =>
        /\ "totalarea" \in floodFields
        /\ \A i \in DOMAIN floods :
              /\ "totalarea" \in DOMAIN floods[i]
              /\ floods[i].totalarea = ShapeArea(floods[i])

\* A call without any asset layer has been made on a table with rows that had
\* the field totalarea from an earlier call.
C21_Witness ==
    /\ assessCalls = 2
    /\ lastAssess.had_totalarea
    /\ lastAssess.wetlands_path = None /\ lastAssess.buildings_path = None
    /\ Len(floods) >= 1

(***************************************************************************)
(* analysis.flood_area (SpecFloodArea)                                     *)
(***************************************************************************)
NextFloodArea == FloodArea
StartFloodArea ==
    /\ InitFloodArea /\ IdleAgg /\ IdleImpact /\ IdleField /\ IdleScope
    /\ IdleExt /\ IdleScen /\ IdleBatch /\ IdleAssess /\ IdleInPlace
    /\ IdleAnalyze
SpecFloodArea == StartFloodArea /\ [][NextFloodArea]_vars

\* The DEM cell i, in meters, is at most elevation_feet times 0.3048.
AtMostFeetInMeters(i) ==
    \/ topo_input[i].cls = "ninf"
    \/ /\ topo_input[i].cls = "fin"
       /\ topo_input[i].val * 10000 <= elevation_feet * METERS_PER_FOOT

\* C23: after flood_area a cell of a zone is flooded exactly when its DEM
\* elevation in meters is at most elevation_feet times 0.3048.
C23_FeetConvertedToMeters ==
    pcFlood = "done" /\ elevation_feet \in FeetValues =>
        \A i \in DOMAIN zones_array :
            zones_array[i] > 0 =>
                ((flooded_array[i] # 0) <=> AtMostFeetInMeters(i))

\* The same with the cells left out whose DEM value is NaN or infinite.
C23_ValidCellsConverted ==
    pcFlood = "done" /\ elevation_feet \in FeetValues =>
        \A i \in DOMAIN zones_array :
            zones_array[i] > 0 /\ topo_input[i].cls = "fin" =>
                ((flooded_array[i] # 0) <=> AtMostFeetInMeters(i))

(***************************************************************************)
(* Side effects of utils.flood_zones (SpecFlood)                           *)
(***************************************************************************)
\* C24: a call of flood_zones changes the caller's elevation grid in the NaN
\* and infinite cells only, which become -999, and leaves the zone grid as it
\* was; the grid it returns is a grid of its own (masking it has changed
\* neither input).
C24_OnlyInvalidCellsRewritten ==
    [][pcFlood = "ready" /\ pcFlood' = "done" =>
          /\ zones_array' = zones_array
          /\ DOMAIN topo_array' = DOMAIN topo_array
          /\ \A i \in DOMAIN topo_array :
                /\ topo_array[i].cls # "fin" => topo_array'[i] = Fin(NODATA)
                /\ topo_array[i].cls = "fin" => topo_array'[i] = topo_array[i]
          /\ DOMAIN flooded_array' = DOMAIN zones_array]_vars

\* A call has rewritten an invalid (infinite) cell, has kept a valid cell, and
\* has returned a grid that differs from the zone grid.
C24_Witness ==
    /\ pcFlood = "done"
    /\ \E i, j \in Cells :
          /\ topo_input[i] = PosInf /\ topo_array[i] = Fin(NODATA)
          /\ topo_input[j] = Fin(1) /\ topo_array[j] = Fin(1)
    /\ flooded_array # zones_array

(***************************************************************************)
(* The merge of finish_results (SpecFinish)                                *)
(***************************************************************************)
\* The rows of the per-scenario results handed to finish_results, one file
\* after the other, as they were when the call was made.
ResultRows == [i \in DOMAIN bParams.results |-> NewRow(1, i - 1, {"w1"})]

\* The rows of the results that meet the baseline feature `f`, matched with it.
JoinedWith(f) ==
    LET met == SelectSeq(ResultRows, LAMBDA r : f \in r.sources)
    IN  [i \in DOMAIN met |-> [met[i] EXCEPT !.target = f]]

\* C25: a call of finish_results with an output name that has returned has,
\* with a source layer, left in the output one row per pair of a baseline
\* feature and a result row that meet (no row for a baseline feature that
\* meets none) and has removed the temporary merged file; without a source
\* layer it has left in the output the rows of the results as they are, not
\* joined to anything, and there is no temporary merged file.
C25_MergeThenJoin ==
    bpc = "returned" /\ bParams.outputname # None =>
        LET tmp_fname == create_temp_filename(bParams.outputname, "_temp_")
        IN  /\ bParams.outputname \in DOMAIN bfiles
            /\ tmp_fname \notin DOMAIN bfiles
            /\ bParams.sourcename # None =>
                  bfiles[bParams.outputname] =
                      JoinedWith(WetlandFeatures[1]) \o JoinedWith(WetlandFeatures[2])
            /\ bParams.sourcename = None =>
                  bfiles[bParams.outputname] = ResultRows

\* A call with a source layer has returned after merging more than one
\* result: every result row is in the output, matched with the baseline
\* feature it meets.
C25_Witness ==
    /\ bpc = "returned" /\ bParams.outputname # None
    /\ bParams.sourcename # None
    /\ Len(bParams.results) >= 2
    /\ Len(bfiles[bParams.outputname]) = Len(bParams.results)
    /\ \A i \in DOMAIN bfiles[bParams.outputname] :
          bfiles[bParams.outputname][i].target = "w1"

(***************************************************************************)
(* toolbox.StandardScenarios.analyze (SpecAnalyze)                         *)
(***************************************************************************)
NextAnalyze == AnalyzePrep \/ AnalyzeFloodArea \/ AnalyzeImpact
StartAnalyze ==
    /\ IdleFlood /\ IdleAgg /\ IdleImpact /\ IdleField /\ IdleScope
    /\ IdleExt /\ IdleScen /\ IdleBatch /\ IdleAssess /\ IdleInPlace
    /\ IdleFloodArea /\ InitAnalyze
SpecAnalyze == StartAnalyze /\ [][NextAnalyze]_vars

\* The call is for a standard scenario (no elevation given) whose surge name
\* is not in the table of surges.
UnknownSurge ==
    /\ anArgs.elev = None
    /\ anArgs.surge # None
    /\ anArgs.surge.val \notin {"MHHW", "10yr", "50yr", "100yr"}

\* C26: analyze of a standard scenario whose surge name is not in the table
\* of surges never starts flood_area and never writes a dataset, and once
\* its preparation has run the error has left analyze.
C26_UnknownSurgeFailsFirst ==
    UnknownSurge =>
        /\ anpc \in {"call", "raised"}
        /\ floodCalls = 0 /\ anFiles = {}
        /\ anpc = "raised" => anError = "KeyError"

\* The error of an unknown surge has left analyze.
C26_Witness == UnknownSurge /\ anpc = "raised" /\ anError = "KeyError"

(***************************************************************************)
(* Scope objects constructed ahead of their use (SpecScopeObjects)         *)
(***************************************************************************)
\* C30: the __exit__ of a WorkSpace or OverwriteState scope sets the global
\* to the value it had when the scope was entered, also for a scope object
\* that was constructed before the with-statement that enters it.
C30_RestoresValueAtEntry ==
    lastExit.valid => lastExit.restored = lastExit.prior

\* The same for scopes that were constructed by the with-statement itself:
\* nothing can change the global between construction and entry.
C30_RestoredWhenEnteredAtOnce ==
    lastExit.valid /\ constructed = 0 => lastExit.restored = lastExit.prior

(***************************************************************************)
(* main_execute inside its WorkSpace and OverwriteState scopes (SpecMain)  *)
(***************************************************************************)
\* with utils.WorkSpace(params['workspace']), ...: the first scope of the
\* with-statement of main_execute is constructed and entered.
MainEnterWorkSpace ==
    /\ bpc = "start" /\ stack = <<>>
    /\ \E path \in Paths : Entered(scope_init("WorkSpace", path))
    /\ UNCHANGED objs

\* ..., utils.OverwriteState(True): the second scope is constructed and
\* entered after the first.
MainEnterOverwrite ==
    /\ bpc = "start" /\ Len(stack) = 1
    /\ Entered(scope_init("OverwriteState", "True"))
    /\ UNCHANGED objs

\* polygons_to_raster: with OverwriteState(True), Extension("spatial").
PolygonsToRasterEnter ==
    /\ bpc = "start" /\ Len(stack) = 2
    /\ Entered(scope_init("OverwriteState", "True"))
    /\ UNCHANGED objs

\* The rasterization, inside the scope of polygons_to_raster.
MainRasterize == Len(stack) = 3 /\ Rasterize

\* The with-block of polygons_to_raster completes.
PolygonsToRasterLeave ==
    /\ bpc = "scenario" /\ Len(stack) = 3
    /\ LeaveScope(FALSE)

\* The steps of the scenarios and of the merges, inside the two scopes of
\* main_execute.
MainStep ==
    /\ Len(stack) = 2
    /\ \/ Mask \/ Vectorize \/ Dissolve \/ TagFloods \/ AssessImpact
       \/ FinishScenario \/ FinishFloods \/ FinishWetlands \/ FinishBuildings

\* A step inside the scopes raises: in the rasterization, in a scenario or
\* in a merge.
MainFail == Len(stack) >= 2 /\ Fail

\* The exception passes a with-block: the __exit__ of the innermost scope runs.
MainUnwind == bpc = "aborted" /\ stack # <<>> /\ LeaveScope(TRUE)

\* The with-block of main_execute completes: the scopes are left, the
\* innermost first.
MainLeave == bpc = "return" /\ stack # <<>> /\ LeaveScope(FALSE)

\* main_execute returns.
MainReturn == stack = <<>> /\ Return

NextMain ==
    \/ MainEnterWorkSpace \/ MainEnterOverwrite \/ PolygonsToRasterEnter
    \/ MainRasterize \/ PolygonsToRasterLeave \/ MainStep \/ MainFail
    \/ MainUnwind \/ MainLeave \/ MainReturn
StartMain ==
    /\ IdleFlood /\ IdleAgg /\ IdleImpact /\ IdleField /\ InitScope
    /\ IdleExt /\ IdleScen /\ InitBatch /\ IdleAssess /\ IdleInPlace
    /\ IdleFloodArea /\ IdleAnalyze
    /\ world = [flooded |-> <<1>>, hits |-> [z \in BatchZones |-> {"w1"}]]
SpecMain == StartMain /\ [][NextMain]_vars

\* main_execute has ended: it has returned, or an exception has left it.
MainEnded == bpc = "done" \/ (bpc = "aborted" /\ stack = <<>>)

\* C28: when main_execute has ended, by returning or by an exception from
\* the rasterization, a scenario or a merge, the workspace and the overwrite
\* flag are the ones from before the call.
C28_GlobalsRestored ==
    MainEnded => workspace = baseline[1] /\ overwriteOutput = baseline[2]

\* main_execute, called with another workspace than the current one and
\* with overwriting off, has been left by an exception raised after the
\* rasterization.
C28_Witness ==
    /\ bpc = "aborted" /\ stack = <<>>
    /\ rasterCalls = 1
    /\ lastExit.valid /\ lastExit.kind = "WorkSpace" /\ lastExit.byException
    /\ lastExit.new # baseline[1]
    /\ baseline[2] = "False"

(***************************************************************************)
(* Deletion of the per-scenario results (SpecFinish)                       *)
(***************************************************************************)
\* The per-scenario results that finish_results has deleted.
DeletedResults == bParams.present \ DOMAIN bfiles

\* The output is on disk and every row of the results is in it.
MergedOutputWritten ==
    /\ bParams.outputname # None
    /\ bParams.outputname \in DOMAIN bfiles
    /\ \A i \in DOMAIN ResultRows :
          \E k \in DOMAIN bfiles[bParams.outputname] :
              bfiles[bParams.outputname][k].num = ResultRows[i].num

\* C29: when finish_results has deleted per-scenario results, a merged
\* output with their rows has been written, whether or not the caller gave
\* an output name.
C29_DeletedOnlyAfterMerge ==
    bpc \in {"returned", "raised"} /\ DeletedResults # {} => MergedOutputWritten

\* The same for the calls that are given an output name.
C29_DeletedAfterMergeWhenNamed ==
    bpc \in {"returned", "raised"} /\ DeletedResults # {}
        /\ bParams.outputname # None => MergedOutputWritten

====
